---- MODULE Spec2Model ----
(***************************************************************************)
(* FortyTwo-Lang front end: the source iterator, the lexer, the parser     *)
(* working on a peekable token stream, and the type checker (second        *)
(* semantic pass) walking the instructions of function bodies.             *)
(*                                                                         *)
(* ParserSpec: a token stream is drawn from bounded sets and one of the    *)
(* parse functions is applied to it.                                       *)
(* ParserIterSpec: a token stream is pulled through the parser iterator.   *)
(* Spec: the type checker walks the top-level nodes of a program; the      *)
(* bodies are generated instruction by instruction.                        *)
(* ProgramSpec: whole programs are type-checked in every order of their    *)
(* top-level nodes.                                                        *)
(* LexerSpec, LexerFairSpec: a text is pulled through the lexer, one turn  *)
(* of a read loop per step.                                                *)
(* SourceSpec: a Source is built from a text and iterated.                 *)
(* EmitterSpec: an expression is handed to a C emitter.                    *)
(***************************************************************************)
EXTENDS Integers, Sequences, FiniteSets, TLC

VARIABLES
    tokens,       \* parser: the token stream (Peekable<Iterator<Item = Token>>)
    parser_op,    \* parser: the parse function that was applied ("none" before)
    parsed,       \* parser: what it returned, with the cursor of the stream
    nodes,        \* checker: the top-level nodes of the program (prototypes)
    node_index,   \* checker: index of the next top-level node of type_check's loop
    functions,    \* checker: symbol_table.functions
    structs,      \* checker: symbol_table.structs
    variables,    \* checker: TypeChecker::variables, name -> Variable
    call_stack,   \* checker: TypeChecker::call_stack, Seq of frames (sets of names)
    blocks,       \* checker: the blocks the walk is inside of (function, if, else, while)
    current,      \* checker: the expression of the instruction the walk is at
    last_op,      \* checker: the handler type_check returned from
    result,       \* checker: Running, Ok or the Error type_check returned
    letters,      \* lexer: the characters of the source (Peekable<Enumerate<..>>)
    cursor,       \* lexer: index of the character peek() shows, Len + 1 at the end
    lexer_pc,     \* lexer: "next" between pulls, or the read loop a pull is in
    buffer,       \* lexer: the string and positions the read loop has collected
    lexed,        \* lexer: the item the last pull returned
    source_text,  \* source: Source::text, the lines of the source
    iter_position,\* source: SourceIter::position
    yielded,      \* source: the items SourceIter::next has returned so far
    ast_expression, \* emitter: the ast::Expression handed to the emitter
    emitter,      \* emitter: which emitter has run (emitter::c or emitter_c)
    writer        \* emitter: the characters written to Emitter::writer

parser_vars == <<tokens, parser_op, parsed>>
checker_vars == <<nodes, node_index, functions, structs, variables, call_stack,
                  blocks, current, last_op, result>>
lexer_vars == <<letters, cursor, lexer_pc, buffer, lexed>>
source_vars == <<source_text, iter_position, yielded>>
emitter_vars == <<ast_expression, emitter, writer>>
vars == <<tokens, parser_op, parsed, nodes, node_index, functions, structs,
          variables, call_stack, blocks, current, last_op, result,
          letters, cursor, lexer_pc, buffer, lexed, source_text, iter_position, yielded,
          ast_expression, emitter, writer>>

\* no lexer built
LexerIdle ==
    /\ letters = <<>>
    /\ cursor = 1
    /\ lexer_pc = "none"
    /\ buffer = <<>>
    /\ lexed = <<>>

\* no source read
SourceIdle ==
    /\ source_text = <<>>
    /\ iter_position = <<>>
    /\ yielded = <<>>

\* no emitter built
EmitterIdle ==
    /\ ast_expression = [kind |-> "None"]
    /\ emitter = "none"
    /\ writer = <<>>

(***************************************************************************)
(* Bounds                                                                  *)
(***************************************************************************)
\* operators in an operand/operator chain fed to the parser
MaxOps == 3
\* length of the arbitrary token streams fed to the parser
MaxShort == 2

(***************************************************************************)
(* Tokens (token.rs).  A token is a TokenKind with a position; the        *)
(* position of a token is its index in the stream.  Identifier carries its *)
(* string; the payload of Int / Float is not modelled.                     *)
(***************************************************************************)
OperatorKinds == {"Plus", "Minus", "Star", "Slash", "Equal", "NotEqual", "Less", "Greater"}

TokenKind == OperatorKinds \cup
    {"Identifier", "Int", "Float", "OpeningParentheses", "ClosingParentheses",
     "Comma", "Colon", "Var", "Pointer", "Return",
     "OpeningCurlyBraces", "ClosingCurlyBraces", "If", "Else", "While", "Struct"}

Tok(kind, value) == [kind |-> kind, value |-> value]

Token(t, position) == [kind |-> t.kind, value |-> t.value, position |-> position]

\* A stream of tokens, each positioned at its index.
Positioned(ts) == [i \in 1..Len(ts) |-> Token(ts[i], i)]

None == [kind |-> "None", value |-> "", position |-> 0]

\* Peekable::peek : the token at the cursor, None at the end of the stream
Peek(pos) == IF pos <= Len(tokens) THEN tokens[pos] ELSE None

(***************************************************************************)
(* Results of the parse functions: Ok(value) or Err(error), with the      *)
(* cursor of the stream after the call.                                    *)
(***************************************************************************)
Ok(value, pos) == [ok |-> TRUE, value |-> value, pos |-> pos]

Err(error, pos) == [ok |-> FALSE, error |-> error, pos |-> pos]

\* the `?` operator : an Err is returned as it is, an Ok value goes on
Try(res, Continue(_)) == IF res.ok THEN Continue(res) ELSE res

ExpectedToken(expected, found) == [kind |-> "ExpectedToken", expected |-> expected, found |-> found]

IllegalToken(token, context) == [kind |-> "IllegalToken", token |-> token, context |-> context]

(***************************************************************************)
(* ast::expression                                                         *)
(***************************************************************************)
VariableExpr(name, position) == [kind |-> "Variable", value |-> name, position |-> position]

NumberExpr(number_kind, position) == [kind |-> "Number", value |-> number_kind, position |-> position]

BinaryExpression(lhs, operator, rhs) ==
    [kind |-> "BinaryExpression", lhs |-> lhs, operator |-> operator, rhs |-> rhs]

FunctionCall(name, params) == [kind |-> "FunctionCall", name |-> name, params |-> params]

\* BinaryOperator::partial_cmp : the precedence table
Precedence(operator) ==
    CASE operator \in {"Less", "Greater"} -> 10
      [] operator \in {"Add", "Subtract"} -> 20
      [] operator \in {"Multiply", "Divide"} -> 30
      [] operator \in {"Equal", "NotEqual"} -> 5

\* helper::parse_operator : the operator of a token, Err when it is none
parse_operator(token) ==
    CASE token.kind = "Plus" -> Ok([value |-> "Add", position |-> token.position], 0)
      [] token.kind = "Minus" -> Ok([value |-> "Subtract", position |-> token.position], 0)
      [] token.kind = "Star" -> Ok([value |-> "Multiply", position |-> token.position], 0)
      [] token.kind = "Slash" -> Ok([value |-> "Divide", position |-> token.position], 0)
      [] token.kind = "Equal" -> Ok([value |-> "Equal", position |-> token.position], 0)
      [] token.kind = "NotEqual" -> Ok([value |-> "NotEqual", position |-> token.position], 0)
      [] token.kind = "Less" -> Ok([value |-> "Less", position |-> token.position], 0)
      [] token.kind = "Greater" -> Ok([value |-> "Greater", position |-> token.position], 0)
      [] token.kind = "None" -> Err(IllegalToken(token, "operator"), 0)
      [] OTHER -> Err(ExpectedToken("Plus", token), 0)

\* helper::parse_identifier and the other single-token helpers: the token
\* handed in (already taken from the stream) must be of the kind
ExpectKind(kind, pos) ==
    IF Peek(pos).kind = kind THEN Ok(Peek(pos), pos + 1)
    ELSE Err(ExpectedToken(kind, Peek(pos)), IF pos <= Len(tokens) THEN pos + 1 ELSE pos)

RECURSIVE parse_primary_expression(_)
RECURSIVE parse_function_parameters_loop(_, _)
RECURSIVE parse_binary_expression_rhs(_, _, _)
RECURSIVE parse_data_type(_)

\* expression.rs parse_float : next() must be Float or Int
parse_float(pos) ==
    IF Peek(pos).kind \in {"Float", "Int"}
    THEN Ok(NumberExpr(Peek(pos).kind, pos), pos + 1)
    ELSE Err(ExpectedToken("Float", Peek(pos)), IF pos <= Len(tokens) THEN pos + 1 ELSE pos)

\* expression.rs parse_int : next() must be Int
parse_int(pos) ==
    IF Peek(pos).kind = "Int"
    THEN Ok(NumberExpr("Int", pos), pos + 1)
    ELSE Err(ExpectedToken("Int", Peek(pos)), IF pos <= Len(tokens) THEN pos + 1 ELSE pos)

\* function.rs parse_function_parameters : `(` [primary (`,` primary)*] `)`
parse_function_parameters(pos) ==
    Try(ExpectKind("OpeningParentheses", pos), LAMBDA open :
        IF Peek(open.pos).kind = "ClosingParentheses" THEN Ok(<<>>, open.pos + 1)
        ELSE parse_function_parameters_loop(<<>>, open.pos))

parse_function_parameters_loop(parameters, pos) ==
    Try(parse_primary_expression(pos), LAMBDA parameter :
        IF Peek(parameter.pos).kind = "Comma"
        THEN parse_function_parameters_loop(Append(parameters, parameter.value), parameter.pos + 1)
        ELSE Try(ExpectKind("ClosingParentheses", parameter.pos), LAMBDA close :
                 Ok(Append(parameters, parameter.value), close.pos)))

\* function.rs parse_function_call
parse_function_call(pos, identifier) ==
    Try(parse_function_parameters(pos), LAMBDA params :
        Ok(FunctionCall(identifier, params.value), params.pos))

\* expression.rs parse_identifier_expression
parse_identifier_expression(pos) ==
    Try(ExpectKind("Identifier", pos), LAMBDA identifier :
        IF Peek(identifier.pos).kind = "OpeningParentheses"
        THEN parse_function_call(identifier.pos,
                 [value |-> identifier.value.value, position |-> identifier.value.position])
        ELSE Ok(VariableExpr(identifier.value.value, identifier.value.position), identifier.pos))

\* expression.rs parse_binary_expression
parse_binary_expression(pos) ==
    Try(parse_primary_expression(pos), LAMBDA lhs :
        parse_binary_expression_rhs(lhs.value, None, lhs.pos))

\* expression.rs parse_parentheses
parse_parentheses(pos) ==
    Try(ExpectKind("OpeningParentheses", pos), LAMBDA open :
    Try(parse_binary_expression(open.pos), LAMBDA expression :
    Try(ExpectKind("ClosingParentheses", expression.pos), LAMBDA close :
        Ok(expression.value, close.pos))))

\* expression.rs parse_primary_expression : dispatch on the peeked token
parse_primary_expression(pos) ==
    CASE Peek(pos).kind = "Identifier" -> parse_identifier_expression(pos)
      [] Peek(pos).kind = "Float" -> parse_float(pos)
      [] Peek(pos).kind = "Int" -> parse_int(pos)
      [] Peek(pos).kind = "OpeningParentheses" -> parse_parentheses(pos)
      [] OTHER -> Err(IllegalToken(Peek(pos), "expression"), pos)

RECURSIVE parse_binary_expression_rhs_swapped(_, _, _)
\* a loop that merges the operands the other way round: rhs becomes the
\* left operand of the new BinaryExpression
parse_binary_expression_rhs_swapped(lhs, min_operator, pos) ==
    LET operator == parse_operator(Peek(pos)) IN
    IF ~operator.ok THEN Ok(lhs, pos)
    ELSE LET rhs == parse_primary_expression(pos + 1) IN
         IF ~rhs.ok THEN rhs
         ELSE parse_binary_expression_rhs_swapped(
                  BinaryExpression(rhs.value, operator.value, lhs), min_operator, rhs.pos)

\* expression.rs parse_binary_expression_rhs : one turn of the loop and the
\* rest of the loop as the recursive call with the merged lhs.  min_operator
\* is passed along and, as in the source, never read.
parse_binary_expression_rhs(lhs, min_operator, pos) ==
    LET operator == parse_operator(Peek(pos)) IN
    IF ~operator.ok THEN Ok(lhs, pos)
    ELSE LET rhs == parse_primary_expression(pos + 1) IN
         IF ~rhs.ok THEN rhs
         ELSE LET next_operator == parse_operator(Peek(rhs.pos))
                  absorbed ==
                      IF next_operator.ok
                         /\ Precedence(next_operator.value.value) > Precedence(operator.value.value)
                      THEN parse_binary_expression_rhs(rhs.value, next_operator.value, rhs.pos)
                      ELSE rhs
              IN IF ~absorbed.ok THEN absorbed
                 ELSE parse_binary_expression_rhs(
                          BinaryExpression(lhs, operator.value, absorbed.value),
                          min_operator, absorbed.pos)

\* BasicDataType::try_from
BasicDataTypeOf(type_str) ==
    CASE type_str = "int" -> "Int"
      [] type_str = "float" -> "Float"
      [] OTHER -> "None"

\* variable.rs parse_data_type : `ptr` data_type | ident
parse_data_type(pos) ==
    CASE Peek(pos).kind = "Pointer" ->
            LET type_to_point_to == parse_data_type(pos + 1) IN
            IF ~type_to_point_to.ok THEN type_to_point_to
            ELSE Ok([value |-> <<"Pointer", type_to_point_to.value>>, position |-> pos],
                    type_to_point_to.pos)
      [] Peek(pos).kind = "Identifier" ->
            IF BasicDataTypeOf(Peek(pos).value) # "None"
            THEN Ok([value |-> <<"Basic", BasicDataTypeOf(Peek(pos).value)>>, position |-> pos], pos + 1)
            ELSE Ok([value |-> <<"Struct", Peek(pos).value>>, position |-> pos], pos + 1)
      [] OTHER -> Err(ExpectedToken("Identifier", Peek(pos)),
                      IF pos <= Len(tokens) THEN pos + 1 ELSE pos)

\* variable.rs parse_variable_declaration : `var` name `:` type `=` value
parse_variable_declaration(pos) ==
    LET var == ExpectKind("Var", pos) IN
    IF ~var.ok THEN var
    ELSE LET name == ExpectKind("Identifier", var.pos) IN
    IF ~name.ok THEN name
    ELSE LET colon == ExpectKind("Colon", name.pos) IN
    IF ~colon.ok THEN colon
    ELSE LET data_type == parse_data_type(colon.pos) IN
    IF ~data_type.ok THEN data_type
    ELSE LET equal == ExpectKind("Equal", data_type.pos) IN
    IF ~equal.ok THEN equal
    ELSE LET value == parse_primary_expression(equal.pos) IN
    IF ~value.ok THEN value
    ELSE Ok([kind |-> "VariableDeclaration",
             name |-> [value |-> name.value.value, position |-> name.value.position],
             data_type |-> data_type.value,
             value |-> value.value], value.pos)


RECURSIVE parse_block(_)
RECURSIVE parse_instruction(_)

\* ast::Instruction::Expression
ExpressionOf(e) == [kind |-> "Expression", value |-> e]

\* instruction.rs parse_if_else : `if` condition block [`else` block]
parse_if_else(pos) ==
    Try(ExpectKind("If", pos), LAMBDA if_ :
    Try(parse_binary_expression(if_.pos), LAMBDA condition :
    Try(parse_block(condition.pos), LAMBDA if_true :
        IF Peek(if_true.pos).kind = "Else"
        THEN Try(parse_block(if_true.pos + 1), LAMBDA if_false :
                 Ok([kind |-> "IfElse", condition |-> condition.value,
                     if_true |-> if_true.value, if_false |-> if_false.value], if_false.pos))
        ELSE Ok([kind |-> "IfElse", condition |-> condition.value,
                 if_true |-> if_true.value, if_false |-> <<>>], if_true.pos))))

\* instruction.rs parse_while_loop : `while` condition block
parse_while_loop(pos) ==
    Try(ExpectKind("While", pos), LAMBDA while :
    Try(parse_binary_expression(while.pos), LAMBDA condition :
    Try(parse_block(condition.pos), LAMBDA body :
        Ok([kind |-> "WhileLoop", condition |-> condition.value, body |-> body.value],
           body.pos))))

\* instruction.rs parse_identifier_instruction : a call, an assignment or
\* the variable alone
parse_identifier_instruction(pos) ==
    Try(ExpectKind("Identifier", pos), LAMBDA identifier :
        CASE Peek(identifier.pos).kind = "OpeningParentheses" ->
                Try(parse_function_call(identifier.pos,
                        [value |-> identifier.value.value,
                         position |-> identifier.value.position]),
                    LAMBDA call : Ok(ExpressionOf(call.value), call.pos))
          [] Peek(identifier.pos).kind = "Equal" ->
                Try(parse_binary_expression(identifier.pos + 1), LAMBDA value :
                    Ok([kind |-> "VariableAssignment",
                        name |-> [value |-> identifier.value.value,
                                  position |-> identifier.value.position],
                        value |-> value.value], value.pos))
          [] OTHER ->
                Ok(ExpressionOf(VariableExpr(identifier.value.value,
                                             identifier.value.position)), identifier.pos))

\* instruction.rs parse_instruction : dispatch on the peeked token (the
\* number tokens of token.rs are Int and Float)
parse_instruction(pos) ==
    CASE Peek(pos).kind = "Identifier" -> parse_identifier_instruction(pos)
      [] Peek(pos).kind \in {"Int", "Float"} ->
            Try(parse_float(pos), LAMBDA number : Ok(ExpressionOf(number.value), number.pos))
      [] Peek(pos).kind = "OpeningParentheses" ->
            Try(parse_parentheses(pos), LAMBDA e : Ok(ExpressionOf(e.value), e.pos))
      [] Peek(pos).kind = "If" -> parse_if_else(pos)
      [] Peek(pos).kind = "While" -> parse_while_loop(pos)
      [] Peek(pos).kind = "Var" -> parse_variable_declaration(pos)
      [] OTHER -> Err(IllegalToken(Peek(pos), "instruction"), pos)

RECURSIVE parse_block_loop(_, _)
\* block.rs parse_block : the loop `while let Some(token) = tokens.peek()`
parse_block_loop(block, pos) ==
    IF Peek(pos).kind = "None" THEN Ok(block, pos)
    ELSE IF Peek(pos).kind = "ClosingCurlyBraces" THEN Ok(block, pos + 1)
    ELSE Try(parse_instruction(pos), LAMBDA instruction :
             parse_block_loop(Append(block, instruction.value), instruction.pos))

\* block.rs parse_block : `{` instruction* `}`
parse_block(pos) ==
    Try(ExpectKind("OpeningCurlyBraces", pos), LAMBDA open : parse_block_loop(<<>>, open.pos))

\* struct_.rs parse_field : name `:` data_type
parse_field(pos) ==
    Try(ExpectKind("Identifier", pos), LAMBDA name :
    Try(ExpectKind("Colon", name.pos), LAMBDA colon :
    Try(parse_data_type(colon.pos), LAMBDA data_type :
        Ok([name |-> [value |-> name.value.value, position |-> name.value.position],
            data_type |-> data_type.value], data_type.pos))))

RECURSIVE parse_struct_fields(_, _)
\* struct_.rs parse_struct_definition : the loop over the fields
parse_struct_fields(fields, pos) ==
    IF Peek(pos).kind = "None" THEN Ok(fields, pos)
    ELSE IF Peek(pos).kind = "ClosingCurlyBraces" THEN Ok(fields, pos + 1)
    ELSE Try(parse_field(pos), LAMBDA field :
             parse_struct_fields(Append(fields, field.value), field.pos))

\* struct_.rs parse_struct_definition : `struct` name `{` field* `}`
parse_struct_definition(pos) ==
    Try(ExpectKind("Struct", pos), LAMBDA struct :
    Try(ExpectKind("Identifier", struct.pos), LAMBDA name :
    Try(ExpectKind("OpeningCurlyBraces", name.pos), LAMBDA open :
    Try(parse_struct_fields(<<>>, open.pos), LAMBDA fields :
        Ok([kind |-> "Struct",
            name |-> [value |-> name.value.value, position |-> name.value.position],
            fields |-> fields.value], fields.pos)))))

(***************************************************************************)
(* Token streams fed to the parser                                         *)
(***************************************************************************)
\* p0 op1 p1 ... opn pn with every operand the token `operand`
Chain(ops, operand) ==
    [i \in 1..(2 * Len(ops) + 1) |-> IF i % 2 = 1 THEN operand ELSE Tok(ops[i \div 2], "")]

\* an operator of each precedence, and two of one precedence
ChainOperators == {"Equal", "Less", "Plus", "Minus", "Star"}

OperatorSeqs == UNION {[1..n -> ChainOperators] : n \in 0..MaxOps}

\* the chain with `(` before operand i and `)` after operand j
Parenthesized(chain, i, j) ==
    SubSeq(chain, 1, 2 * i - 2) \o <<Tok("OpeningParentheses", "")>>
        \o SubSeq(chain, 2 * i - 1, 2 * j - 1) \o <<Tok("ClosingParentheses", "")>>
        \o SubSeq(chain, 2 * j, Len(chain))

ChainInputs == {Chain(ops, Tok("Identifier", "a")) : ops \in OperatorSeqs}

ParenInputs ==
    UNION {{Parenthesized(Chain(ops, Tok("Identifier", "a")), i, j) :
               i \in 1..(Len(ops) + 1), j \in 1..(Len(ops) + 1)} : ops \in OperatorSeqs}

Alphabet ==
    {Tok(k, "") : k \in TokenKind \ {"Identifier"}}
        \cup {Tok("Identifier", "a"), Tok("Identifier", "int")}

ShortInputs == UNION {[1..n -> Alphabet] : n \in 0..MaxShort}

DeclPrefixes ==
    {<<Tok("Var", ""), Tok("Identifier", "x"), Tok("Colon", ""), Tok("Identifier", "int"),
       Tok("Equal", "")>>,
     <<Tok("Var", ""), Tok("Identifier", "x"), Tok("Colon", ""), Tok("Pointer", ""),
       Tok("Identifier", "S"), Tok("Equal", "")>>}

DeclTails == {<<>>, <<Tok("Return", ""), Tok("Identifier", "x")>>, <<Tok("Identifier", "x")>>}

DeclInputs ==
    {prefix \o Chain(ops, Tok("Int", "")) \o tail :
        prefix \in DeclPrefixes, ops \in OperatorSeqs, tail \in DeclTails}

\* a call a(p, ..) with each param the identifier a
CallTokens(n) ==
    <<Tok("Identifier", "a"), Tok("OpeningParentheses", "")>>
        \o [i \in 1..(2 * n - 1) |-> IF i % 2 = 1 THEN Tok("Identifier", "a") ELSE Tok("Comma", "")]
        \o <<Tok("ClosingParentheses", "")>>

\* what stands after an expression: nothing, the `)` or `,` of an
\* enclosing construct, the next instruction, an operator without operand
ExpressionTails ==
    {<<>>, <<Tok("ClosingParentheses", "")>>, <<Tok("Comma", ""), Tok("Identifier", "a")>>,
     <<Tok("Return", ""), Tok("Int", "")>>, <<Tok("Identifier", "a")>>, <<Tok("Plus", "")>>}

\* chains with a call, a number and a parenthesized chain as operands,
\* followed by a tail
TailInputs ==
    {first \o <<Tok(op1, "")>> \o second \o <<Tok(op2, "")>> \o third \o tail :
        first \in {CallTokens(0), CallTokens(2), <<Tok("Int", "")>>},
        op1 \in {"Plus", "Star"},
        second \in {<<Tok("Identifier", "a")>>, CallTokens(1)},
        op2 \in {"Less", "Star"},
        third \in {<<Tok("Float", "")>>,
                   Parenthesized(Chain(<<"Minus">>, Tok("Identifier", "a")), 1, 2)},
        tail \in ExpressionTails}

\* the tokens of one instruction: a variable, an assignment, a call, an if
\* with and without else, a while, a declaration, and an if and a while
\* whose block is not closed
InstructionTokens ==
    {<<Tok("Identifier", "a")>>,
     <<Tok("Identifier", "a"), Tok("Equal", ""), Tok("Int", "")>>,
     CallTokens(1),
     <<Tok("If", ""), Tok("Identifier", "a"), Tok("OpeningCurlyBraces", ""),
       Tok("ClosingCurlyBraces", "")>>,
     <<Tok("If", ""), Tok("Identifier", "a"), Tok("OpeningCurlyBraces", ""),
       Tok("ClosingCurlyBraces", ""), Tok("Else", ""), Tok("OpeningCurlyBraces", ""),
       Tok("Identifier", "a"), Tok("ClosingCurlyBraces", "")>>,
     <<Tok("While", ""), Tok("Identifier", "a"), Tok("OpeningCurlyBraces", ""),
       Tok("Int", ""), Tok("ClosingCurlyBraces", "")>>,
     <<Tok("Var", ""), Tok("Identifier", "x"), Tok("Colon", ""), Tok("Identifier", "int"),
       Tok("Equal", ""), Tok("Int", "")>>,
     <<Tok("If", ""), Tok("Identifier", "a"), Tok("OpeningCurlyBraces", "")>>,
     <<Tok("While", ""), Tok("Identifier", "a"), Tok("OpeningCurlyBraces", ""),
       Tok("Identifier", "a")>>}

\* what a body ends with: the end of the stream, `}`, `}` and more tokens
BodyEnds ==
    {<<>>, <<Tok("ClosingCurlyBraces", "")>>,
     <<Tok("ClosingCurlyBraces", ""), Tok("Identifier", "a")>>}

\* `{`, up to two instructions, and an end
BlockInputs ==
    {<<Tok("OpeningCurlyBraces", "")>> \o body \o end :
        body \in {<<>>} \cup InstructionTokens
                    \cup {one \o two : one \in InstructionTokens, two \in InstructionTokens},
        end \in BodyEnds}

\* the tokens of the fields of a struct; the last ones are half a field
FieldTokens ==
    {<<>>,
     <<Tok("Identifier", "a"), Tok("Colon", ""), Tok("Identifier", "int")>>,
     <<Tok("Identifier", "a"), Tok("Colon", ""), Tok("Identifier", "int"),
       Tok("Identifier", "b"), Tok("Colon", ""), Tok("Pointer", ""), Tok("Identifier", "S")>>,
     <<Tok("Identifier", "a"), Tok("Colon", "")>>,
     <<Tok("Identifier", "a"), Tok("Colon", ""), Tok("Pointer", "")>>}

\* `struct` S `{`, fields, and an end
StructInputs ==
    {<<Tok("Struct", ""), Tok("Identifier", "S"), Tok("OpeningCurlyBraces", "")>>
         \o fields \o end : fields \in FieldTokens, end \in BodyEnds}

Inputs ==
    ChainInputs \cup ParenInputs \cup ShortInputs \cup DeclInputs \cup TailInputs
        \cup BlockInputs \cup StructInputs

(***************************************************************************)
(* ParserSpec: apply a parse function to a token stream                    *)
(***************************************************************************)
CheckerIdle ==
    /\ nodes = <<>>
    /\ node_index = 1
    /\ functions = <<>>
    /\ structs = <<>>
    /\ variables = <<>>
    /\ call_stack = <<>>
    /\ blocks = <<>>
    /\ current = [kind |-> "None"]
    /\ last_op = "none"
    /\ result = [kind |-> "Idle"]

ParserInit ==
    /\ tokens \in {Positioned(ts) : ts \in Inputs}
    /\ parser_op = "none"
    /\ parsed = Ok("none", 1)
    /\ CheckerIdle
    /\ LexerIdle
    /\ SourceIdle
    /\ EmitterIdle

ParseBinaryExpression ==
    /\ parser_op = "none"
    /\ parser_op' = "parse_binary_expression"
    /\ parsed' = parse_binary_expression(1)
    /\ UNCHANGED <<tokens, checker_vars, lexer_vars, source_vars, emitter_vars>>

ParseVariableDeclaration ==
    /\ parser_op = "none"
    /\ parser_op' = "parse_variable_declaration"
    /\ parsed' = parse_variable_declaration(1)
    /\ UNCHANGED <<tokens, checker_vars, lexer_vars, source_vars, emitter_vars>>

ParseBlock ==
    /\ parser_op = "none"
    /\ parser_op' = "parse_block"
    /\ parsed' = parse_block(1)
    /\ UNCHANGED <<tokens, checker_vars, lexer_vars, source_vars, emitter_vars>>

ParseStructDefinition ==
    /\ parser_op = "none"
    /\ parser_op' = "parse_struct_definition"
    /\ parsed' = parse_struct_definition(1)
    /\ UNCHANGED <<tokens, checker_vars, lexer_vars, source_vars, emitter_vars>>

ParserNext ==
    \/ ParseBinaryExpression
    \/ ParseVariableDeclaration
    \/ ParseBlock
    \/ ParseStructDefinition

ParserSpec == ParserInit /\ [][ParserNext]_vars

(***************************************************************************)
(* Claims about the parser                                                 *)
(***************************************************************************)
Unparenthesized == \A i \in 1..Len(tokens) : tokens[i].kind # "OpeningParentheses"

IsBinary(e) == e.kind = "BinaryExpression"

RECURSIVE BindsTighter(_)
\* no BinaryExpression has a direct operand BinaryExpression of lower precedence
BindsTighter(e) ==
    IsBinary(e) =>
        /\ IsBinary(e.lhs) => Precedence(e.lhs.operator.value) >= Precedence(e.operator.value)
        /\ IsBinary(e.rhs) => Precedence(e.rhs.operator.value) >= Precedence(e.operator.value)
        /\ BindsTighter(e.lhs)
        /\ BindsTighter(e.rhs)

RECURSIVE GroupsLeft(_)
\* no BinaryExpression has a right operand BinaryExpression of the same precedence
GroupsLeft(e) ==
    IsBinary(e) =>
        /\ IsBinary(e.rhs) => Precedence(e.rhs.operator.value) # Precedence(e.operator.value)
        /\ GroupsLeft(e.lhs)
        /\ GroupsLeft(e.rhs)

\* C1: for every unparenthesized operand/operator chain, the tree returned by
\* parse_binary_expression has no BinaryExpression with a direct operand
\* BinaryExpression of lower precedence (higher precedence binds tighter).
C1_PrecedenceBinding ==
    (parser_op = "parse_binary_expression" /\ Unparenthesized /\ parsed.ok)
        => BindsTighter(parsed.value)

\* C2: for every unparenthesized operator chain, operators of equal precedence
\* group to the left: no BinaryExpression has as right operand a
\* BinaryExpression of the same precedence.
C2_LeftAssociative ==
    (parser_op = "parse_binary_expression" /\ Unparenthesized /\ parsed.ok)
        => GroupsLeft(parsed.value)

\* the stream starts `var` name `:` type `=` and a binary expression follows
DeclarationOfBinaryExpression ==
    /\ Len(tokens) >= 5
    /\ tokens[1].kind = "Var" /\ tokens[2].kind = "Identifier" /\ tokens[3].kind = "Colon"
    /\ parse_data_type(4).ok
    /\ Peek(parse_data_type(4).pos).kind = "Equal"
    /\ parse_binary_expression(parse_data_type(4).pos + 1).ok

\* C3: parse_variable_declaration parses everything after `=` as a full
\* binary expression: the declaration's value is the tree
\* parse_binary_expression gives for the tokens after `=`, and the stream is
\* left at the first token after that expression.
C3_DeclarationValueIsBinaryExpression ==
    (parser_op = "parse_variable_declaration" /\ DeclarationOfBinaryExpression)
        => /\ parsed.ok
           /\ parsed.value.value = parse_binary_expression(parse_data_type(4).pos + 1).value
           /\ parsed.pos = parse_binary_expression(parse_data_type(4).pos + 1).pos

RECURSIVE BraceDepth(_, _)
\* the `{` less the `}` among the tokens from pos up to end
BraceDepth(pos, end) ==
    IF pos >= end THEN 0
    ELSE BraceDepth(pos + 1, end)
             + (CASE tokens[pos].kind = "OpeningCurlyBraces" -> 1
                  [] tokens[pos].kind = "ClosingCurlyBraces" -> -1
                  [] OTHER -> 0)

\* C28: parse_block and parse_struct_definition return Ok only when the
\* body was closed: the last token they consumed is the `}` that closes the
\* `{` of the body.  A stream that ends before that `}` gives an error and
\* not the instructions or fields collected so far
C28_BodyClosedByBrace ==
    (parser_op \in {"parse_block", "parse_struct_definition"} /\ parsed.ok)
        => /\ tokens[parsed.pos - 1].kind = "ClosingCurlyBraces"
           /\ BraceDepth(1, parsed.pos) = 0

RECURSIVE PrimaryEnd(_)
RECURSIVE ParameterListEnd(_)
RECURSIVE ChainRestEnd(_)

\* the grammar of a primary: a number, a name, a call name `(` [primary
\* (`,` primary)*] `)`, or `(` primary (operator primary)* `)`.  The
\* index of the token after the primary that starts at pos, 0 when none
\* starts there
PrimaryEnd(pos) ==
    CASE Peek(pos).kind \in {"Int", "Float"} -> pos + 1
      [] Peek(pos).kind = "Identifier" ->
            IF Peek(pos + 1).kind # "OpeningParentheses" THEN pos + 1
            ELSE IF Peek(pos + 2).kind = "ClosingParentheses" THEN pos + 3
            ELSE ParameterListEnd(pos + 2)
      [] Peek(pos).kind = "OpeningParentheses" ->
            IF PrimaryEnd(pos + 1) = 0 THEN 0
            ELSE IF ChainRestEnd(PrimaryEnd(pos + 1)) = 0 THEN 0
            ELSE IF Peek(ChainRestEnd(PrimaryEnd(pos + 1))).kind = "ClosingParentheses"
                 THEN ChainRestEnd(PrimaryEnd(pos + 1)) + 1
                 ELSE 0
      [] OTHER -> 0

\* primary (`,` primary)* `)` from pos on
ParameterListEnd(pos) ==
    IF PrimaryEnd(pos) = 0 THEN 0
    ELSE IF Peek(PrimaryEnd(pos)).kind = "Comma" THEN ParameterListEnd(PrimaryEnd(pos) + 1)
    ELSE IF Peek(PrimaryEnd(pos)).kind = "ClosingParentheses" THEN PrimaryEnd(pos) + 1
    ELSE 0

\* (operator primary)* from pos on: the index of the first token that is
\* not an operator, 0 when an operator is not followed by a primary
ChainRestEnd(pos) ==
    IF Peek(pos).kind \notin OperatorKinds THEN pos
    ELSE IF PrimaryEnd(pos + 1) = 0 THEN 0
    ELSE ChainRestEnd(PrimaryEnd(pos + 1))

\* the end of the longest primary (operator primary)* prefix of the stream
LongestChainEnd == IF PrimaryEnd(1) = 0 THEN 0 ELSE ChainRestEnd(PrimaryEnd(1))

RECURSIVE InOrder(_)
RECURSIVE InOrderAll(_, _)
\* the in-order traversal of a tree: the positions of its operands (with a
\* call, its name and then its params) and operators
InOrder(e) ==
    CASE e.kind = "BinaryExpression" ->
            InOrder(e.lhs) \o <<e.operator.position>> \o InOrder(e.rhs)
      [] e.kind = "FunctionCall" -> <<e.name.position>> \o InOrderAll(e.params, 1)
      [] OTHER -> <<e.position>>

InOrderAll(params, i) ==
    IF i > Len(params) THEN <<>> ELSE InOrder(params[i]) \o InOrderAll(params, i + 1)

\* the positions of the operand and operator tokens before `end`, ascending
RECURSIVE OperandsAndOperators(_, _)
OperandsAndOperators(pos, end) ==
    IF pos >= end THEN <<>>
    ELSE IF tokens[pos].kind \in OperatorKinds \cup {"Identifier", "Int", "Float"}
         THEN <<tokens[pos].position>> \o OperandsAndOperators(pos + 1, end)
         ELSE OperandsAndOperators(pos + 1, end)

\* C30: parse_binary_expression returns a tree exactly for the streams that
\* start with a primary (operator primary)* chain; it has then consumed
\* the tokens of the longest such prefix and the first token that is not
\* an operator is left in the stream, and the in-order traversal of the
\* tree lists the operands and operators of the consumed tokens in their
\* order, each once
C30_ConsumesChainInOrder ==
    parser_op = "parse_binary_expression" =>
        /\ parsed.ok <=> LongestChainEnd # 0
        /\ parsed.ok =>
               /\ parsed.pos = LongestChainEnd
               /\ Peek(parsed.pos).kind \notin OperatorKinds
               /\ InOrder(parsed.value) = OperandsAndOperators(1, parsed.pos)

\* a chain of a call, an operator, an operand, an operator of higher
\* precedence and a parenthesized operand was parsed, and the token after
\* it is left in the stream
C30_Witness ==
    /\ parser_op = "parse_binary_expression"
    /\ parsed.ok
    /\ parsed.pos <= Len(tokens)
    /\ IsBinary(parsed.value)
    /\ IsBinary(parsed.value.rhs)
    /\ IsBinary(parsed.value.rhs.rhs)
    /\ parsed.value.lhs.kind = "FunctionCall"
    /\ Len(parsed.value.lhs.params) = 2

(***************************************************************************)
(* Type checker (semantic_analyzer/type_check.rs)                          *)
(*                                                                         *)
(* DataType is <<"Basic", b>>, <<"Struct", name>> or <<"Pointer", c>> with *)
(* c the PositionContainer [value, position] of the pointed-to type, as in *)
(* the source: equality of DataType is the derived one and so compares the *)
(* positions inside pointer types.                                         *)
(***************************************************************************)
Int_ == <<"Basic", "Int">>

Float_ == <<"Basic", "Float">>

PointerTo(data_type, position) == <<"Pointer", [value |-> data_type, position |-> position]>>

\* semantic_analyzer::Variable
Variable(name, type_) == [name |-> name, type_ |-> type_]

\* Option<PositionContainer<DataType>>
Some(value, position) == [some |-> TRUE, value |-> value, position |-> position]

NoReturnType == [some |-> FALSE]

FunctionArgument(name, position, data_type, type_position) ==
    [name |-> [value |-> name, position |-> position],
     data_type |-> [value |-> data_type, position |-> type_position]]

\* semantic_analyzer::Error, and the abort of todo!()
Redeclaration(previous_declaration, new_declaration) ==
    [kind |-> "Redeclaration", previous_declaration |-> previous_declaration,
     new_declaration |-> new_declaration]

UndeclaredVariable(name) == [kind |-> "UndeclaredVariable", name |-> name]

TypeMismatch(expected, position, actual) ==
    [kind |-> "TypeMismatch", expected |-> expected, position |-> position, actual |-> actual]

UndefinedFunctionCall(function_call) ==
    [kind |-> "UndefinedFunctionCall", function_call |-> function_call]

ArgumentCountMismatch(expected, actual, function_call) ==
    [kind |-> "ArgumentCountMismatch", expected |-> expected, actual |-> actual,
     function_call |-> function_call]

Panic == [kind |-> "Panic", message |-> "Function without return value not supported yet"]

TypeOk(type_) == [ok |-> TRUE, type |-> type_]

CheckOk == [ok |-> TRUE]

Failed(error) == [ok |-> FALSE, error |-> error]

\* HashMap::insert : the entry of the key is replaced
MapInsert(map, key, value) ==
    [k \in DOMAIN map \cup {key} |-> IF k = key THEN value ELSE map[k]]

\* HashMap::remove for each key of keys
MapRemove(map, keys) == [k \in DOMAIN map \ keys |-> map[k]]

\* HashSet<Arc<Variable>>::insert : Variable is hashed and compared by
\* name.value alone (semantic_analyzer/variable.rs) and nothing but
\* name.value is ever read from a frame, so a frame is the set of the
\* names of its elements
FrameInsert(frame, var) == frame \cup {var.name.value}

\* the SourcePositionRange of one token
Span(position) == [start |-> position, end |-> position]

\* Expression::source_position
RECURSIVE source_position(_)
source_position(expression) ==
    CASE expression.kind = "BinaryExpression" ->
            [start |-> source_position(expression.lhs).start,
             end |-> source_position(expression.rhs).end]
      [] expression.kind = "FunctionCall" ->
            Span(expression.name.position)
      [] OTHER -> Span(expression.position)

RECURSIVE infer_expression_type(_, _)

\* TypeChecker::number_type_inference
number_type_inference(number) ==
    IF number.value = "Int" THEN TypeOk(Int_) ELSE TypeOk(Float_)

\* TypeChecker::infer_variable_type
infer_variable_type(vs, variable) ==
    IF variable.value \in DOMAIN vs
    THEN TypeOk(vs[variable.value].type_)
    ELSE Failed(UndeclaredVariable([value |-> variable.value, position |-> variable.position]))

\* TypeChecker::infer_function_call_type : the return type of the prototype;
\* todo!() aborts when the prototype has none
infer_function_call_type(function_call) ==
    IF function_call.name.value \in DOMAIN functions
    THEN IF functions[function_call.name.value].return_type.some
         THEN TypeOk(functions[function_call.name.value].return_type.value)
         ELSE Failed(Panic)
    ELSE Failed(UndefinedFunctionCall(function_call))

\* the comparison `lhs != rhs` of infer_binary_expression_type
binary_operand_types_differ(lhs, rhs) == lhs # rhs

\* TypeChecker::infer_binary_expression_type
infer_binary_expression_type(vs, binary_expression) ==
    LET lhs == infer_expression_type(vs, binary_expression.lhs) IN
    IF ~lhs.ok THEN lhs
    ELSE LET rhs == infer_expression_type(vs, binary_expression.rhs) IN
         IF ~rhs.ok THEN rhs
         ELSE IF binary_operand_types_differ(lhs.type, rhs.type)
              THEN Failed(TypeMismatch(lhs.type, Span(binary_expression.operator.position),
                                       rhs.type))
              ELSE TypeOk(lhs.type)

\* TypeChecker::infer_expression_type
infer_expression_type(vs, expression) ==
    CASE expression.kind = "BinaryExpression" -> infer_binary_expression_type(vs, expression)
      [] expression.kind = "FunctionCall" -> infer_function_call_type(expression)
      [] expression.kind = "Number" -> number_type_inference(expression)
      [] expression.kind = "Variable" -> infer_variable_type(vs, expression)

RECURSIVE function_call_params(_, _, _, _)
\* the zip loop of TypeChecker::function_call, from the i-th param on
function_call_params(vs, function_call, args, i) ==
    IF i > Len(function_call.params) THEN CheckOk
    ELSE LET param_type == infer_expression_type(vs, function_call.params[i]) IN
         IF ~param_type.ok THEN param_type
         ELSE IF param_type.type # args[i].data_type.value
              THEN Failed(TypeMismatch(args[i].data_type.value,
                                       source_position(function_call.params[i]),
                                       param_type.type))
              ELSE function_call_params(vs, function_call, args, i + 1)

\* TypeChecker::function_call
function_call(vs, call) ==
    IF call.name.value \notin DOMAIN functions
    THEN Failed(UndefinedFunctionCall(call))
    ELSE IF Len(call.params) # Len(functions[call.name.value].args)
         THEN Failed(ArgumentCountMismatch(Len(functions[call.name.value].args),
                                           Len(call.params), call))
         ELSE function_call_params(vs, call, functions[call.name.value].args, 1)

RECURSIVE expression(_, _)
\* TypeChecker::expression and TypeChecker::binary_expression
expression(vs, e) ==
    CASE e.kind = "BinaryExpression" ->
            IF ~expression(vs, e.lhs).ok THEN expression(vs, e.lhs) ELSE expression(vs, e.rhs)
      [] e.kind = "FunctionCall" -> function_call(vs, e)
      [] e.kind = "Number" -> CheckOk
      [] e.kind = "Variable" -> CheckOk

\* what a handler leaves behind: its Result and the checker's two fields
Outcome(res, vs, stack) == [res |-> res, variables |-> vs, call_stack |-> stack]

\* TypeChecker::add_variable
add_variable(vs, stack, var) ==
    Outcome(CheckOk,
            MapInsert(vs, var.name.value, var),
            [stack EXCEPT ![Len(stack)] = FrameInsert(@, var)])

\* a drop that removes the variables of the top frame and leaves the frame
drop_call_stack_frame_keeps_frame(vs, stack) ==
    Outcome(CheckOk, MapRemove(vs, stack[Len(stack)]), stack)

\* TypeChecker::drop_call_stack_frame
drop_call_stack_frame(vs, stack) ==
    Outcome(CheckOk,
            MapRemove(vs, stack[Len(stack)]),
            SubSeq(stack, 1, Len(stack) - 1))

\* the push of a new CallStackFrame
push_frame(stack) == Append(stack, {})

\* a declaration that shadows: the earlier entry is replaced without error
variable_declaration_shadowing(vs, stack, declaration) ==
    LET variable == Variable(declaration.name, declaration.data_type)
        inferred_type == infer_expression_type(vs, declaration.value)
    IN IF ~inferred_type.ok THEN Outcome(inferred_type, vs, stack)
       ELSE IF inferred_type.type # variable.type_
       THEN Outcome(Failed(TypeMismatch(variable.type_,
                                        Span(variable.name.position),
                                        inferred_type.type)), vs, stack)
       ELSE LET added == add_variable(vs, stack, variable) IN
            Outcome(expression(added.variables, declaration.value),
                    added.variables, added.call_stack)

\* a declaration that adds the variable before it compares the types
variable_declaration_adds_first(vs, stack, declaration) ==
    LET variable == Variable(declaration.name, declaration.data_type)
        inferred_type == infer_expression_type(vs, declaration.value)
        added == add_variable(vs, stack, variable)
    IN IF ~inferred_type.ok THEN Outcome(inferred_type, vs, stack)
       ELSE IF variable.name.value \in DOMAIN vs
       THEN Outcome(Failed(Redeclaration(vs[variable.name.value], variable)), vs, stack)
       ELSE IF inferred_type.type # variable.type_
       THEN Outcome(Failed(TypeMismatch(variable.type_,
                                        Span(variable.name.position),
                                        inferred_type.type)),
                    added.variables, added.call_stack)
       ELSE Outcome(expression(added.variables, declaration.value),
                    added.variables, added.call_stack)

\* TypeChecker::variable_declaration
variable_declaration(vs, stack, declaration) ==
    LET variable == Variable(declaration.name, declaration.data_type)
        inferred_type == infer_expression_type(vs, declaration.value)
    IN IF ~inferred_type.ok THEN Outcome(inferred_type, vs, stack)
       ELSE IF inferred_type.type # variable.type_
       THEN Outcome(Failed(TypeMismatch(variable.type_,
                                        Span(variable.name.position),
                                        inferred_type.type)), vs, stack)
       ELSE IF variable.name.value \in DOMAIN vs
       THEN Outcome(Failed(Redeclaration(vs[variable.name.value], variable)), vs, stack)
       ELSE LET added == add_variable(vs, stack, variable) IN
            Outcome(expression(added.variables, declaration.value),
                    added.variables, added.call_stack)

\* an assignment that declares a name it does not find
variable_assignment_declares(vs, stack, assignment) ==
    LET expression_type == infer_expression_type(vs, assignment.value) IN
    IF ~expression_type.ok THEN Outcome(expression_type, vs, stack)
    ELSE LET var == Variable(assignment.name, expression_type.type) IN
         IF var.name.value \in DOMAIN vs /\ expression_type.type # vs[var.name.value].type_
         THEN Outcome(Failed(TypeMismatch(vs[var.name.value].type_,
                                          Span(assignment.name.position),
                                          expression_type.type)), vs, stack)
         ELSE LET added == add_variable(vs, stack, var) IN
              Outcome(expression(added.variables, assignment.value),
                      added.variables, added.call_stack)

\* TypeChecker::variable_assignment
variable_assignment(vs, stack, assignment) ==
    LET expression_type == infer_expression_type(vs, assignment.value) IN
    IF ~expression_type.ok THEN Outcome(expression_type, vs, stack)
    ELSE LET var == Variable(assignment.name, expression_type.type) IN
         IF var.name.value \notin DOMAIN vs
         THEN Outcome(Failed(UndeclaredVariable(var.name)), vs, stack)
         ELSE IF expression_type.type # vs[var.name.value].type_
         THEN Outcome(Failed(TypeMismatch(vs[var.name.value].type_,
                                          Span(assignment.name.position),
                                          expression_type.type)), vs, stack)
         ELSE LET added == add_variable(vs, stack, var) IN
              Outcome(expression(added.variables, assignment.value),
                      added.variables, added.call_stack)

\* TypeChecker::return_ : the type is inferred and compared with nothing
return_(vs, stack, e) ==
    LET return_type == infer_expression_type(vs, e) IN
    IF ~return_type.ok THEN Outcome(return_type, vs, stack)
    ELSE Outcome(CheckOk, vs, stack)

RECURSIVE add_arguments(_, _, _, _)
\* the loop over function.prototype.args of TypeChecker::function
add_arguments(vs, stack, args, i) ==
    IF i > Len(args) THEN Outcome(CheckOk, vs, stack)
    ELSE LET added == add_variable(vs, stack, Variable(args[i].name, args[i].data_type.value)) IN
         add_arguments(added.variables, added.call_stack, args, i + 1)

RECURSIVE global_symbol_scan_until_definition(_, _, _)
\* a scan that stops at the first function definition: what is declared
\* after it is not in the table
global_symbol_scan_until_definition(ast_nodes, table, wanted) ==
    IF ast_nodes = <<>> THEN table
    ELSE LET node == Head(ast_nodes)
             inserted ==
                 IF (wanted = "functions" /\ node.kind \in {"Function", "FunctionPrototype"})
                    \/ (wanted = "structs" /\ node.kind = "Struct")
                 THEN MapInsert(table, node.name.value, node)
                 ELSE table
         IN IF node.kind = "Function" THEN inserted
            ELSE global_symbol_scan_until_definition(Tail(ast_nodes), inserted, wanted)

RECURSIVE global_symbol_scan(_, _, _)
\* SymbolTable::global_symbol_scan : functions (wanted = "functions") or
\* structs of the nodes from the i-th on, inserted into table
global_symbol_scan(ast_nodes, table, wanted) ==
    IF ast_nodes = <<>> THEN table
    ELSE LET node == Head(ast_nodes) IN
         global_symbol_scan(Tail(ast_nodes),
             IF (wanted = "functions" /\ node.kind \in {"Function", "FunctionPrototype"})
                \/ (wanted = "structs" /\ node.kind = "Struct")
             THEN MapInsert(table, node.name.value, node)
             ELSE table,
             wanted)


(***************************************************************************)
(* Programs walked by the type checker                                     *)
(***************************************************************************)
\* nesting of if / else / while blocks inside a function body
MaxDepth == 1

FunctionNode(kind, name, position, args, return_type) ==
    [kind |-> kind, name |-> [value |-> name, position |-> position], args |-> args,
     return_type |-> return_type]

\* def f(x: int): int
Fn_f == FunctionNode("Function", "f", 20, <<FunctionArgument("x", 21, Int_, 22)>>,
                     Some(Int_, 23))

\* def g()
Fn_g == FunctionNode("Function", "g", 30, <<>>, NoReturnType)

\* def h(x: int, y: ptr int, x: float): float
\* (parse_function_argument_list collects the arguments without comparing
\* their names)
Fn_h == FunctionNode("Function", "h", 40,
            <<FunctionArgument("x", 47, Int_, 48),
              FunctionArgument("y", 41, PointerTo(Int_, 43), 42),
              FunctionArgument("x", 44, Float_, 45)>>,
            Some(Float_, 46))

\* extern e(y: ptr int): ptr int
Ex_e == FunctionNode("FunctionPrototype", "e", 50,
            <<FunctionArgument("y", 51, PointerTo(Int_, 53), 52)>>,
            Some(PointerTo(Int_, 55), 54))

\* struct S { }
St_S == [kind |-> "Struct", name |-> [value |-> "S", position |-> 60], fields |-> <<>>]

Programs == {<<Fn_f, Ex_e, Fn_g>>, <<St_S, Ex_e, Fn_h>>}

\* the name declarations and assignments are written with (y is an argument)
Names == {"x"}

FunctionNames == {"f", "g", "e"}

\* the types a declaration is written with (the `int` of `ptr int` at 3)
DeclaredTypes == {Int_, Float_, PointerTo(Int_, 3)}

AtomKinds == {"Int", "Float", "x", "y"}

\* a number literal or a variable at the position
Atom(atom, position) ==
    IF atom \in {"Int", "Float"} THEN NumberExpr(atom, position) ELSE VariableExpr(atom, position)

Atoms(position) == {Atom(a, position) : a \in AtomKinds}

Call(name, position, params) == FunctionCall([value |-> name, position |-> position], params)

\* the param lists of the calls: numbers and the variable y
ParamLists == {<<>>, <<"Int">>, <<"y">>, <<"Int", "Int">>, <<"Int", "y">>}

\* calls name(p1, .., pn) with a number or the variable y for each param
AtomCalls(position) ==
    {Call(name, position, [i \in 1..Len(atoms) |-> Atom(atoms[i], position + 2 * i)]) :
        name \in FunctionNames, atoms \in ParamLists}

\* the operands of the binary expressions: atoms, f(), f(1), g() and e(y)
Operands(position) ==
    Atoms(position) \cup
        {Call("f", position, <<>>), Call("f", position, <<Atom("Int", position + 1)>>),
         Call("g", position, <<>>), Call("e", position, <<Atom("y", position + 1)>>)}

Operator(operator, position) == [value |-> operator, position |-> position]

Binaries ==
    {BinaryExpression(lhs, Operator("Add", 13), rhs) : lhs \in Operands(10), rhs \in Operands(14)}

NestedBinaries ==
    {BinaryExpression(BinaryExpression(Atom(a, 10), Operator("Add", 11), Atom(b, 12)),
                      Operator("Less", 13), Atom(c, 14)) :
        a \in {"Int", "Float"}, b \in {"Int", "Float"}, c \in {"Int", "Float"}}

NestedCalls ==
    {Call(name, 10, <<param>>) :
        name \in {"f", "g"},
        param \in {Call("f", 12, <<>>), Call("f", 12, <<Atom("Int", 13)>>), Call("g", 12, <<>>),
                   BinaryExpression(Atom("Int", 12), Operator("Add", 13), Atom("Int", 14)),
                   BinaryExpression(Atom("Int", 12), Operator("Add", 13), Atom("Float", 14))}}

Expressions == Atoms(10) \cup AtomCalls(10) \cup Binaries \cup NestedBinaries \cup NestedCalls

\* no instruction is being checked
NoInstruction == [kind |-> "None"]

\* PositionContainer<String> of the name a declaration (position 8) or an
\* assignment (position 9) is written with
DeclarationName(name) == [value |-> name, position |-> 8]

AssignmentName(name) == [value |-> name, position |-> 9]

(***************************************************************************)
(* Spec: TypeChecker::type_check walking a program.  `current` holds the   *)
(* expression of the instruction the walk has reached (the value of a      *)
(* declaration, assignment or return, a bare expression, a condition); the *)
(* handler that checks it is one of the actions, which also picks the name *)
(* and the declared type.                                                  *)
(***************************************************************************)
ParserIdle ==
    /\ tokens = <<>>
    /\ parser_op = "none"
    /\ parsed = Ok("none", 1)

\* type_check: the checker is built from the symbol table of the global
\* symbol scan and the global frame is pushed
Init ==
    /\ nodes \in Programs
    /\ node_index = 1
    /\ functions = global_symbol_scan(nodes, <<>>, "functions")
    /\ structs = global_symbol_scan(nodes, <<>>, "structs")
    /\ variables = <<>>
    /\ call_stack = <<{}>>
    /\ blocks = <<>>
    /\ current = NoInstruction
    /\ last_op = "none"
    /\ result = [kind |-> "Running"]
    /\ ParserIdle
    /\ LexerIdle
    /\ SourceIdle
    /\ EmitterIdle

Running == result.kind = "Running"

Top == blocks[Len(blocks)]

\* an instruction was checked in the innermost block: an else block that
\* was empty so far no longer is
Entered(bs) ==
    IF bs # <<>> /\ bs[Len(bs)] = "if_false_empty" THEN [bs EXCEPT ![Len(bs)] = "if_false"] ELSE bs

\* the `?` after a handler: an Err ends type_check with that error, and
\* last_op names the handler it came from
Finish(outcome, handler) ==
    /\ variables' = outcome.variables
    /\ call_stack' = outcome.call_stack
    /\ IF outcome.res.ok
       THEN /\ current' = NoInstruction
            /\ blocks' = Entered(blocks)
            /\ UNCHANGED <<result, last_op>>
       ELSE /\ result' = outcome.res.error
            /\ last_op' = handler
            /\ UNCHANGED <<current, blocks>>
    /\ UNCHANGED <<nodes, node_index, functions, structs, parser_vars, lexer_vars, source_vars, emitter_vars>>

\* TypeChecker::ast_node for a struct or an extern prototype
AstNodeSkip ==
    /\ Running /\ blocks = <<>> /\ node_index <= Len(nodes)
    /\ nodes[node_index].kind \in {"Struct", "FunctionPrototype"}
    /\ node_index' = node_index + 1
    /\ UNCHANGED <<nodes, functions, structs, variables, call_stack, blocks, current, last_op,
                   result, parser_vars, lexer_vars, source_vars, emitter_vars>>

\* TypeChecker::function, up to the loop over the body
FunctionEnter ==
    /\ Running /\ blocks = <<>> /\ node_index <= Len(nodes)
    /\ nodes[node_index].kind = "Function"
    /\ LET seeded == add_arguments(variables, push_frame(call_stack), nodes[node_index].args, 1) IN
       /\ variables' = seeded.variables
       /\ call_stack' = seeded.call_stack
    /\ blocks' = <<"function">>
    /\ UNCHANGED <<nodes, node_index, functions, structs, current, last_op, result, parser_vars, lexer_vars, source_vars, emitter_vars>>

\* a function that takes itself out of the symbol table when it returns
FunctionLeave_unregisters ==
    /\ Running /\ blocks = <<"function">> /\ current = NoInstruction
    /\ LET dropped == drop_call_stack_frame(variables, call_stack) IN
       /\ variables' = dropped.variables
       /\ call_stack' = dropped.call_stack
    /\ blocks' = <<>>
    /\ node_index' = node_index + 1
    /\ functions' = MapRemove(functions, {nodes[node_index].name.value})
    /\ UNCHANGED <<nodes, structs, current, last_op, result, parser_vars, lexer_vars, source_vars, emitter_vars>>

\* TypeChecker::function, after the loop over the body
FunctionLeave ==
    /\ Running /\ blocks = <<"function">> /\ current = NoInstruction
    /\ LET dropped == drop_call_stack_frame(variables, call_stack) IN
       /\ variables' = dropped.variables
       /\ call_stack' = dropped.call_stack
    /\ blocks' = <<>>
    /\ node_index' = node_index + 1
    /\ UNCHANGED <<nodes, functions, structs, current, last_op, result, parser_vars, lexer_vars, source_vars, emitter_vars>>

\* type_check returns Ok(()) after the last node
TypeCheckDone ==
    /\ Running /\ blocks = <<>> /\ node_index > Len(nodes)
    /\ result' = [kind |-> "Ok"]
    /\ last_op' = "type_check"
    /\ UNCHANGED <<nodes, node_index, functions, structs, variables, call_stack, blocks, current,
                   parser_vars, lexer_vars, source_vars, emitter_vars>>

\* the loops `for instruction in ...` reach the next instruction of the block
NextInstruction(e) ==
    /\ Running /\ blocks # <<>> /\ current = NoInstruction
    /\ current' = e
    /\ UNCHANGED <<nodes, node_index, functions, structs, variables, call_stack, blocks, last_op,
                   result, parser_vars, lexer_vars, source_vars, emitter_vars>>

\* TypeChecker::instruction -> expression
ExpressionInstruction ==
    /\ Running /\ current # NoInstruction
    /\ Finish(Outcome(expression(variables, current), variables, call_stack), "expression")

\* TypeChecker::statement -> variable_declaration
VariableDeclaration(name, data_type) ==
    /\ Running /\ current # NoInstruction
    /\ Finish(variable_declaration(variables, call_stack,
                  [name |-> DeclarationName(name), data_type |-> data_type, value |-> current]),
              "variable_declaration")

\* TypeChecker::statement -> variable_assignment
VariableAssignment(name) ==
    /\ Running /\ current # NoInstruction
    /\ Finish(variable_assignment(variables, call_stack,
                  [name |-> AssignmentName(name), value |-> current]),
              "variable_assignment")

\* TypeChecker::statement -> return_
Return ==
    /\ Running /\ current # NoInstruction
    /\ Finish(return_(variables, call_stack, current), "return_")

\* a condition was checked and the frame of the block is pushed
EnterBlock(condition, block, handler) ==
    /\ IF condition.ok
       THEN /\ call_stack' = push_frame(call_stack)
            /\ blocks' = Append(Entered(blocks), block)
            /\ current' = NoInstruction
            /\ UNCHANGED <<result, last_op>>
       ELSE /\ result' = condition.error
            /\ last_op' = handler
            /\ UNCHANGED <<call_stack, blocks, current>>
    /\ UNCHANGED <<nodes, node_index, functions, structs, variables, parser_vars, lexer_vars, source_vars, emitter_vars>>

\* a block ends: its frame is dropped; `then` is the block the walk enters
\* in its place (the else block after the if block), with a frame of its own
LeaveBlock(then) ==
    /\ LET dropped == drop_call_stack_frame(variables, call_stack) IN
       /\ variables' = dropped.variables
       /\ call_stack' = IF then = <<>> THEN dropped.call_stack ELSE push_frame(dropped.call_stack)
    /\ blocks' = SubSeq(blocks, 1, Len(blocks) - 1) \o then
    /\ UNCHANGED <<nodes, node_index, functions, structs, current, last_op, result, parser_vars, lexer_vars, source_vars, emitter_vars>>

\* TypeChecker::if_else : the condition, and the frame of the if block
IfElse ==
    /\ Running /\ current # NoInstruction /\ Len(blocks) <= MaxDepth
    /\ EnterBlock(expression(variables, current), "if_true", "if_else")

\* TypeChecker::if_else : the if block ends and if_false is empty
IfTrueEnd ==
    /\ Running /\ blocks # <<>> /\ Top = "if_true" /\ current = NoInstruction
    /\ LeaveBlock(<<>>)

\* TypeChecker::if_else : the if block ends and the else block begins
IfTrueElse ==
    /\ Running /\ blocks # <<>> /\ Top = "if_true" /\ current = NoInstruction
    /\ LeaveBlock(<<"if_false_empty">>)

\* TypeChecker::if_else : the else block ends
IfFalseEnd ==
    /\ Running /\ blocks # <<>> /\ Top = "if_false" /\ current = NoInstruction
    /\ LeaveBlock(<<>>)

\* TypeChecker::while_loop : the condition, and the frame of the body
WhileLoop ==
    /\ Running /\ current # NoInstruction /\ Len(blocks) <= MaxDepth
    /\ EnterBlock(expression(variables, current), "while", "while_loop")

\* TypeChecker::while_loop : the body ends
WhileEnd ==
    /\ Running /\ blocks # <<>> /\ Top = "while" /\ current = NoInstruction
    /\ LeaveBlock(<<>>)

Next ==
    \/ AstNodeSkip
    \/ FunctionEnter
    \/ FunctionLeave
    \/ TypeCheckDone
    \/ \E e \in Expressions : NextInstruction(e)
    \/ ExpressionInstruction
    \/ \E name \in Names, data_type \in DeclaredTypes : VariableDeclaration(name, data_type)
    \/ \E name \in Names : VariableAssignment(name)
    \/ Return
    \/ IfElse
    \/ IfTrueEnd
    \/ IfTrueElse
    \/ IfFalseEnd
    \/ WhileLoop
    \/ WhileEnd

Spec == Init /\ [][Next]_vars

(***************************************************************************)
(* The type checker as the code runs it: type_check over whole programs,   *)
(* each function definition with its body                                  *)
(***************************************************************************)
RECURSIVE instruction(_, _, _)
RECURSIVE instructions(_, _, _, _)

\* the `?` operator on what a handler returns: an error is returned as it
\* is, after a success the check goes on
Then(outcome, Continue(_)) == IF outcome.res.ok THEN Continue(outcome) ELSE outcome

\* the loop `for instruction in block { self.instruction(instruction)?; }`,
\* from the i-th instruction on
instructions(vs, stack, block, i) ==
    IF i > Len(block) THEN Outcome(CheckOk, vs, stack)
    ELSE Then(instruction(vs, stack, block[i]), LAMBDA checked :
              instructions(checked.variables, checked.call_stack, block, i + 1))

\* push of a frame, the loop over the block, drop_call_stack_frame
scoped_block(vs, stack, block) ==
    Then(instructions(vs, push_frame(stack), block, 1), LAMBDA body :
         drop_call_stack_frame(body.variables, body.call_stack))

\* TypeChecker::if_else
if_else(vs, stack, ie) ==
    Then(Outcome(expression(vs, ie.condition), vs, stack), LAMBDA condition :
    Then(scoped_block(vs, stack, ie.if_true), LAMBDA if_true :
         IF ie.if_false = <<>> THEN Outcome(CheckOk, if_true.variables, if_true.call_stack)
         ELSE scoped_block(if_true.variables, if_true.call_stack, ie.if_false)))

\* TypeChecker::while_loop
while_loop(vs, stack, wl) ==
    Then(Outcome(expression(vs, wl.condition), vs, stack), LAMBDA condition :
         scoped_block(vs, stack, wl.body))

\* TypeChecker::statement
statement(vs, stack, st) ==
    CASE st.kind = "VariableDeclaration" -> variable_declaration(vs, stack, st)
      [] st.kind = "VariableAssignment" -> variable_assignment(vs, stack, st)
      [] st.kind = "Return" -> return_(vs, stack, st.value)

\* TypeChecker::instruction
instruction(vs, stack, ins) ==
    CASE ins.kind = "Expression" -> Outcome(expression(vs, ins.value), vs, stack)
      [] ins.kind = "IfElse" -> if_else(vs, stack, ins)
      [] ins.kind = "WhileLoop" -> while_loop(vs, stack, ins)
      [] OTHER -> statement(vs, stack, ins)

\* TypeChecker::function
function(vs, stack, definition) ==
    LET seeded == add_arguments(vs, push_frame(stack), definition.args, 1) IN
    Then(instructions(seeded.variables, seeded.call_stack, definition.body, 1), LAMBDA body :
         drop_call_stack_frame(body.variables, body.call_stack))

\* TypeChecker::ast_node
ast_node(vs, stack, node) ==
    IF node.kind = "Function" THEN function(vs, stack, node) ELSE Outcome(CheckOk, vs, stack)

RECURSIVE type_check_nodes(_, _, _, _)
\* the loop over ast_nodes of TypeChecker::type_check, from the i-th node on
type_check_nodes(vs, stack, ast_nodes, i) ==
    IF i > Len(ast_nodes) THEN Outcome(CheckOk, vs, stack)
    ELSE Then(ast_node(vs, stack, ast_nodes[i]), LAMBDA checked :
              type_check_nodes(checked.variables, checked.call_stack, ast_nodes, i + 1))

\* TypeChecker::type_check : no variables, the global frame, all nodes
type_check(ast_nodes) == type_check_nodes(<<>>, <<{}>>, ast_nodes, 1)

\* FunctionDefinition::prototype, as global_symbol_scan takes it
Prototype(node) == [field \in DOMAIN node \ {"body"} |-> node[field]]

\* the symbol table of a program
symbol_table(ast_nodes, wanted) ==
    global_symbol_scan([i \in 1..Len(ast_nodes) |-> Prototype(ast_nodes[i])], <<>>, wanted)

(***************************************************************************)
(* ProgramSpec: whole programs are type-checked, in every order of their   *)
(* top-level nodes                                                         *)
(***************************************************************************)
\* ast::Instruction
ExpressionI(e) == [kind |-> "Expression", value |-> e]

DeclarationI(name, data_type, e) ==
    [kind |-> "VariableDeclaration", name |-> DeclarationName(name), data_type |-> data_type,
     value |-> e]

AssignmentI(name, e) == [kind |-> "VariableAssignment", name |-> AssignmentName(name), value |-> e]

ReturnI(e) == [kind |-> "Return", value |-> e]

IfElseI(condition, if_true, if_false) ==
    [kind |-> "IfElse", condition |-> condition, if_true |-> if_true, if_false |-> if_false]

WhileLoopI(condition, body) == [kind |-> "WhileLoop", condition |-> condition, body |-> body]

\* the bodies the function definitions are given: calls to f, g and e
\* (with the right and with a wrong number of params, with a declared and
\* with an undeclared param), declarations and assignments of x in the
\* body and in if / else / while blocks, and uses, assignments and
\* declarations of x after the block that declared it
Bodies ==
    {<<>>,
     <<ReturnI(Call("f", 10, <<Atom("Int", 12)>>))>>,
     <<ExpressionI(Call("g", 10, <<>>))>>,
     <<ExpressionI(Call("g", 10, <<Atom("Int", 12)>>))>>,
     <<ExpressionI(Call("f", 10, <<Atom("x", 12)>>))>>,
     <<ExpressionI(Call("e", 10, <<Atom("y", 12)>>))>>,
     <<DeclarationI("x", Int_, Atom("Int", 10)),
       WhileLoopI(Atom("x", 10), <<ExpressionI(Call("f", 10, <<Atom("x", 12)>>))>>),
       AssignmentI("x", Atom("Int", 10))>>,
     <<IfElseI(Call("g", 10, <<>>),
               <<DeclarationI("x", Float_, Atom("Float", 10))>>,
               <<DeclarationI("x", Int_, Call("f", 10, <<Atom("Int", 12)>>))>>),
       ReturnI(Atom("Float", 10))>>,
     <<IfElseI(Atom("Int", 10), <<AssignmentI("x", Atom("Int", 10))>>, <<>>),
       AssignmentI("x", Atom("Int", 10))>>,
     <<WhileLoopI(Atom("Int", 10), <<DeclarationI("x", Int_, Atom("Int", 10))>>),
       ExpressionI(Atom("x", 10))>>,
     <<WhileLoopI(Atom("Int", 10), <<DeclarationI("x", Int_, Atom("Int", 10))>>),
       AssignmentI("x", Atom("Int", 10))>>,
     <<IfElseI(Atom("Int", 10), <<DeclarationI("x", Int_, Atom("Int", 10))>>,
               <<AssignmentI("x", Atom("Int", 10))>>)>>,
     <<IfElseI(Atom("Int", 10), <<DeclarationI("x", Int_, Atom("Int", 10))>>,
               <<DeclarationI("x", Float_, Atom("Float", 10))>>)>>,
     <<WhileLoopI(Atom("Int", 10), <<DeclarationI("x", Int_, Atom("Int", 10))>>),
       DeclarationI("x", Float_, Atom("Float", 10))>>}

\* FunctionDefinition {prototype, body}
WithBody(node, body) ==
    [field \in DOMAIN node \cup {"body"} |-> IF field = "body" THEN body ELSE node[field]]

\* def g() { .. }  extern e(y: ptr int): ptr int  def f(x: int): int { .. }
BodyPrograms ==
    {<<WithBody(Fn_g, body_g), Ex_e, WithBody(Fn_f, body_f)>> :
        body_g \in Bodies, body_f \in Bodies}

\* the orders of n nodes
Orders(n) == {p \in [1..n -> 1..n] : \A i, j \in 1..n : p[i] = p[j] => i = j}

Permute(seq, p) == [i \in 1..Len(seq) |-> seq[p[i]]]

\* what type_check returns for the program, with the symbol table at hand
TypeChecked == type_check(nodes)

\* Result<(), Error> as `result` holds it
ResultOf(res) == IF res.ok THEN [kind |-> "Ok"] ELSE res.error

ProgramInit ==
    /\ nodes \in BodyPrograms
    /\ node_index = 1
    /\ functions = symbol_table(nodes, "functions")
    /\ structs = symbol_table(nodes, "structs")
    /\ variables = <<>>
    /\ call_stack = <<>>
    /\ blocks = <<>>
    /\ current = NoInstruction
    /\ last_op = "none"
    /\ result = [kind |-> "Running"]
    /\ ParserIdle
    /\ LexerIdle
    /\ SourceIdle
    /\ EmitterIdle

\* global_symbol_scan was run on the program: type_check is run on it
TypeCheckProgram ==
    /\ last_op \in {"none", "reorder"}
    /\ result' = ResultOf(TypeChecked.res)
    /\ variables' = TypeChecked.variables
    /\ call_stack' = TypeChecked.call_stack
    /\ last_op' = "type_check"
    /\ UNCHANGED <<nodes, node_index, functions, structs, blocks, current, parser_vars, lexer_vars, source_vars, emitter_vars>>

\* the same nodes in another order: global_symbol_scan is run on the
\* reordered program
Reorder(p) ==
    /\ last_op = "type_check"
    /\ Permute(nodes, p) # nodes
    /\ nodes' = Permute(nodes, p)
    /\ functions' = symbol_table(nodes', "functions")
    /\ structs' = symbol_table(nodes', "structs")
    /\ result' = [kind |-> "Running"]
    /\ variables' = <<>>
    /\ call_stack' = <<>>
    /\ last_op' = "reorder"
    /\ UNCHANGED <<node_index, blocks, current, parser_vars, lexer_vars, source_vars, emitter_vars>>

ProgramNext ==
    \/ TypeCheckProgram
    \/ \E p \in Orders(Len(nodes)) : Reorder(p)

ProgramSpec == ProgramInit /\ [][ProgramNext]_vars

\* C11: for a program with unique top-level names, every order of the
\* top-level nodes gives the symbol table and the verdict of type_check
\* (success or failure) that the order at hand gives: a call type-checks
\* the same whether the callee stands before or after the caller
C11_ReorderKeepsVerdict ==
    \A p \in Orders(Len(nodes)) :
        /\ symbol_table(Permute(nodes, p), "functions") = functions
        /\ symbol_table(Permute(nodes, p), "structs") = structs
        /\ type_check(Permute(nodes, p)).res.ok = TypeChecked.res.ok

\* a program was reordered so that f, which calls g, stands before g, and
\* it type-checks
C11_Witness ==
    /\ last_op = "type_check"
    /\ result.kind = "Ok"
    /\ nodes[1].name.value = "f"
    /\ nodes[1].body = <<ExpressionI(Call("g", 10, <<>>))>>
    /\ nodes[3].name.value = "g"

(***************************************************************************)
(* Properties of the type checker                                          *)
(***************************************************************************)
\* the type the handlers infer for the expression the walk is at
Inferred == infer_expression_type(variables, current)

\* the instruction at `current` was checked without error
Checked == current' = NoInstruction /\ result' = result

\* the function whose body the walk is inside of
EnclosingFunction == nodes[node_index]

\* C4: a declaration of a name that is already in `variables` fails with
\* Redeclaration and `variables` keeps the earlier entry (the claim as it
\* is worded, for every value the declaration may have; declarations of a
\* pointer type and the abort of the process on a call without return type
\* are left aside)
C4_RedeclarationAlways ==
    [][\A name \in Names, data_type \in {Int_, Float_} :
          (/\ VariableDeclaration(name, data_type)
           /\ name \in DOMAIN variables
           /\ result'.kind # "Panic")
              => (result'.kind = "Redeclaration" /\ variables' = variables)]_vars

\* C4: a declaration of a name that is already in `variables` never
\* succeeds and leaves `variables` and call_stack as they were; the type of
\* the value is inferred and compared with the declared type first, and
\* when that comparison passes the error is Redeclaration{previous: the
\* earlier entry, new: the declaration}
C4_Redeclaration ==
    [][\A name \in Names, data_type \in DeclaredTypes :
          (VariableDeclaration(name, data_type) /\ name \in DOMAIN variables)
              => (/\ ~Checked
                  /\ result'.kind # "Running"
                  /\ variables' = variables
                  /\ call_stack' = call_stack
                  /\ (Inferred.ok /\ Inferred.type = data_type)
                         => result' = Redeclaration(variables[name],
                                          Variable(DeclarationName(name), data_type))
                  /\ result'.kind = "Redeclaration"
                         => (Inferred.ok /\ Inferred.type = data_type))]_vars

\* a declaration inside a block failed with Redeclaration against the
\* entry of an enclosing frame, which is still in `variables`
C4_Witness ==
    /\ result.kind = "Redeclaration"
    /\ last_op = "variable_declaration"
    /\ Len(call_stack) = 3
    /\ "x" \in call_stack[2]
    /\ "x" \notin call_stack[3]
    /\ "x" \in DOMAIN variables
    /\ variables["x"] = result.previous_declaration
    /\ result.new_declaration.name = DeclarationName("x")

\* a name that is not in vs occurs as a variable in e
RECURSIVE UsesUndeclared(_, _)
UsesUndeclared(vs, e) ==
    CASE e.kind = "Variable" -> e.value \notin DOMAIN vs
      [] e.kind = "BinaryExpression" -> UsesUndeclared(vs, e.lhs) \/ UsesUndeclared(vs, e.rhs)
      [] e.kind = "FunctionCall" ->
            \E i \in 1..Len(e.params) : UsesUndeclared(vs, e.params[i])
      [] OTHER -> FALSE

\* C5: whatever instruction an expression that uses a name not in
\* `variables` stands in (declaration or assignment value, return, if or
\* while condition, bare expression), checking that instruction fails, and
\* fails with UndeclaredVariable when the expression is the variable itself
C5_UndeclaredVariableEverywhere ==
    [][(Running /\ current # NoInstruction /\ UsesUndeclared(variables, current))
          => (/\ result'.kind # "Running"
              /\ current.kind = "Variable" => result'.kind = "UndeclaredVariable")]_vars

\* a call in e passes a number of params that differs from the number of
\* args of the called prototype
RECURSIVE HasArgumentCountMismatch(_)
HasArgumentCountMismatch(e) ==
    CASE e.kind = "BinaryExpression" ->
            HasArgumentCountMismatch(e.lhs) \/ HasArgumentCountMismatch(e.rhs)
      [] e.kind = "FunctionCall" ->
            \/ /\ e.name.value \in DOMAIN functions
               /\ Len(e.params) # Len(functions[e.name.value].args)
            \/ \E i \in 1..Len(e.params) : HasArgumentCountMismatch(e.params[i])
      [] OTHER -> FALSE

\* C6: whatever instruction an expression with such a call stands in
\* (bare expression, return, declaration or assignment value, condition),
\* alone or inside a binary expression or another call's params, checking
\* that instruction fails
C6_ArgumentCountMismatchEverywhere ==
    [][(Running /\ current # NoInstruction /\ HasArgumentCountMismatch(current))
          => result'.kind # "Running"]_vars

\* C7: a declaration `var n: T = e` where the type inferred for e differs
\* from T fails with TypeMismatch{expected: T, actual: the inferred type}
\* at the position of the declaration's name, and neither `variables` nor
\* any frame of call_stack changes
C7_DeclarationTypeMismatch ==
    [][\A name \in Names, data_type \in DeclaredTypes :
          (/\ VariableDeclaration(name, data_type)
           /\ Inferred.ok
           /\ Inferred.type # data_type)
              => (/\ result' = TypeMismatch(data_type, Span(DeclarationName(name).position),
                                            Inferred.type)
                  /\ variables' = variables
                  /\ call_stack' = call_stack)]_vars

\* a declaration of a name that was not declared failed with TypeMismatch
\* at its name, and the name is in `variables` and in no frame
C7_Witness ==
    /\ result.kind = "TypeMismatch"
    /\ last_op = "variable_declaration"
    /\ result.position = Span(DeclarationName("x").position)
    /\ result.expected = Int_
    /\ result.actual = Float_
    /\ "x" \notin DOMAIN variables
    /\ \A i \in 1..Len(call_stack) : "x" \notin call_stack[i]

\* C8: an assignment `n = e` fails with UndeclaredVariable when n is not
\* in `variables` (the claim as it is worded, for every value e; the abort
\* of the process on a call without return type is left aside)
C8_AssignmentAlways ==
    [][\A name \in Names :
          (/\ VariableAssignment(name)
           /\ name \notin DOMAIN variables
           /\ result'.kind # "Panic")
              => result'.kind = "UndeclaredVariable"]_vars

\* C8: provided the type of e is inferred without error, `n = e` fails
\* with UndeclaredVariable{n} when n is not in `variables` and with
\* TypeMismatch{expected: the type recorded for n, actual: the inferred
\* type} when the two types differ; and it succeeds only when the type of
\* e is inferred, n is in `variables` and the two types are equal
C8_Assignment ==
    [][\A name \in Names :
          VariableAssignment(name)
              => (/\ (Inferred.ok /\ name \notin DOMAIN variables)
                         => (/\ result' = UndeclaredVariable(AssignmentName(name))
                             /\ variables' = variables)
                  /\ (Inferred.ok /\ name \in DOMAIN variables
                          /\ Inferred.type # variables[name].type_)
                         => (/\ result' = TypeMismatch(variables[name].type_,
                                                       Span(AssignmentName(name).position),
                                                       Inferred.type)
                             /\ variables' = variables)
                  /\ Checked
                         => (/\ Inferred.ok
                             /\ name \in DOMAIN variables
                             /\ Inferred.type = variables[name].type_))]_vars

\* an assignment to a name that is not in `variables` failed with
\* UndeclaredVariable for that name, at the position of the assignment
C8_Witness ==
    /\ result = UndeclaredVariable(AssignmentName("x"))
    /\ last_op = "variable_assignment"
    /\ "x" \notin DOMAIN variables
    /\ infer_expression_type(variables, current).ok

\* C9: `return e` in a function with the declared return type T, at any
\* nesting of blocks, fails with TypeMismatch when the type inferred for e
\* is not T
C9_ReturnTypeChecked ==
    [][(/\ Return
        /\ EnclosingFunction.return_type.some
        /\ Inferred.ok
        /\ Inferred.type # EnclosingFunction.return_type.value)
          => result'.kind = "TypeMismatch"]_vars

\* two data types have the same nesting of Pointer around the same Basic
\* type or Struct name
RECURSIVE SameType(_, _)
SameType(a, b) ==
    /\ a[1] = b[1]
    /\ IF a[1] = "Pointer" THEN SameType(a[2].value, b[2].value) ELSE a = b

\* C10: for a binary expression whose two operands have inferred types,
\* infer_expression_type returns the common type when the two types are
\* equal and otherwise TypeMismatch{expected: lhs type, actual: rhs type}
\* at the operator; `return` of the expression passes or fails with that
C10_BinaryExpressionType ==
    [][(/\ Return
        /\ current.kind = "BinaryExpression"
        /\ infer_expression_type(variables, current.lhs).ok
        /\ infer_expression_type(variables, current.rhs).ok)
          => LET lhs == infer_expression_type(variables, current.lhs).type
                 rhs == infer_expression_type(variables, current.rhs).type
             IN IF SameType(lhs, rhs)
                THEN /\ Inferred.ok
                     /\ SameType(Inferred.type, lhs)
                     /\ Checked
                ELSE /\ Inferred = Failed(TypeMismatch(lhs, Span(current.operator.position), rhs))
                     /\ result' = Inferred.error]_vars

C13_SymbolTableUnchanged ==
    /\ functions = global_symbol_scan(nodes, <<>>, "functions")
    /\ structs = global_symbol_scan(nodes, <<>>, "structs")

\* type_check ended with an error inside a block of the last function,
\* after it had changed `variables` and call_stack, with the functions and
\* the struct of the program in the symbol table
C13_Witness ==
    /\ result.kind \notin {"Running", "Ok"}
    /\ node_index = Len(nodes)
    /\ Len(call_stack) = 3
    /\ variables # <<>>
    /\ DOMAIN functions = {"e", "h"}
    /\ DOMAIN structs = {"S"}

\* the step leaves an if block, an else block or a while body
BlockLeft ==
    /\ blocks # <<>>
    /\ Top \in {"if_true", "if_false", "while"}
    /\ current = NoInstruction
    /\ variables' = drop_call_stack_frame(variables, call_stack).variables
    /\ \/ Len(blocks') < Len(blocks)
       \/ Len(blocks') = Len(blocks) /\ Top = "if_true" /\ blocks'[Len(blocks')] = "if_false_empty"

\* the names of the frames below the top one: what was in scope when the
\* innermost block was entered
EnclosingNames == UNION {call_stack[i] : i \in 1..(Len(call_stack) - 1)}

\* C23: a variable that was in scope before an if block, an else block or
\* a while body is in `variables` with the same type after the block,
\* whatever the block did with it
C23_OuterVariableSurvivesBlock ==
    [][BlockLeft =>
          \A name \in EnclosingNames :
              /\ name \in DOMAIN variables'
              /\ name \in DOMAIN variables
              /\ variables'[name].type_ = variables[name].type_]_vars

\* the names of all frames of the call stack
FrameNames == UNION {call_stack[i] : i \in 1..Len(call_stack)}

\* C24: in every reachable state a name is a key of `variables` exactly
\* when it is in some frame of call_stack, and no name is in two frames
C24_VariablesMatchFrames ==
    /\ DOMAIN variables = FrameNames
    /\ \A i \in 1..Len(call_stack), j \in 1..Len(call_stack) :
           i # j => call_stack[i] \cap call_stack[j] = {}

\* the step is TypeChecker::function adding the arguments of the function
ArgumentsAdded == blocks = <<>> /\ blocks' = <<"function">>

\* the first argument of the function that is written with the name
FirstArgument(args, name) ==
    args[CHOOSE i \in 1..Len(args) :
            /\ args[i].name.value = name
            /\ \A j \in 1..(i - 1) : args[j].name.value # name]

\* C25: from the step that adds a name to `variables` until the step that
\* pops its frame, the type recorded for the name does not change: no step
\* replaces the type of a name that stays in `variables`, and of two
\* arguments of a function with the same name the type of the first stays
C25_RecordedTypeNeverChanges ==
    [][/\ \A name \in DOMAIN variables \cap DOMAIN variables' :
              variables'[name].type_ = variables[name].type_
       /\ ArgumentsAdded =>
              \A i \in 1..Len(EnclosingFunction.args) :
                  LET name == EnclosingFunction.args[i].name.value IN
                  /\ name \in DOMAIN variables'
                  /\ variables'[name].type_ =
                         FirstArgument(EnclosingFunction.args, name).data_type.value]_vars

\* the step is TypeChecker::function dropping the frame of the function
FunctionLeft == blocks = <<"function">> /\ blocks' = <<>>

\* what a block or a function declared is not in `variables` once its
\* frame is dropped; a function starts with its own arguments and no more
ScopeEndsWithBlock ==
    /\ BlockLeft => \A name \in call_stack[Len(call_stack)] : name \notin DOMAIN variables'
    /\ FunctionLeft => variables' = <<>>
    /\ ArgumentsAdded =>
           DOMAIN variables' = {EnclosingFunction.args[i].name.value :
                                    i \in 1..Len(EnclosingFunction.args)}

\* the first instruction of the block is a declaration `var name: T = n`
\* of a number n of the type T
BlockDeclares(block, name) ==
    IF block = <<>> THEN FALSE
    ELSE IF block[1].kind # "VariableDeclaration" THEN FALSE
    ELSE /\ block[1].name.value = name
         /\ block[1].value.kind = "Number"
         /\ number_type_inference(block[1].value).type = block[1].data_type

\* the instruction reads the name (as a bare expression, as the condition
\* of an if or a while, as the value of a return) or assigns a number to it
UsesName(ins, name) ==
    CASE ins.kind \in {"Expression", "Return"} ->
            ins.value.kind = "Variable" /\ ins.value.value = name
      [] ins.kind \in {"IfElse", "WhileLoop"} ->
            ins.condition.kind = "Variable" /\ ins.condition.value = name
      [] ins.kind = "VariableAssignment" ->
            ins.name.value = name /\ ins.value.kind = "Number"
      [] OTHER -> FALSE

\* what TypeChecker::function returns for a function definition that is
\* checked with nothing in scope
FunctionChecked(definition) == function(<<>>, <<{}>>, definition).res

FailsWithUndeclaredVariable(res) == ~res.ok /\ res.error.kind = "UndeclaredVariable"

\* C26: a variable declared inside an if block is not in scope in the else
\* block nor after the IfElse, and a variable declared inside a while body
\* is not in scope after the loop: an instruction that uses the name there
\* fails with UndeclaredVariable and a declaration of the name there is
\* accepted; after a function nothing of it is in `variables`
C26_BlockScopedDeclarations ==
    last_op = "type_check" =>
    \A k \in 1..Len(nodes) :
        /\ LET before == type_check_nodes(<<>>, <<{}>>, SubSeq(nodes, 1, k), 1) IN
           before.res.ok => (before.variables = <<>> /\ before.call_stack = <<{}>>)
        /\ (nodes[k].kind = "Function" /\ nodes[k].args = <<>> /\ nodes[k].body # <<>>) =>
               LET body == nodes[k].body
                   first == body[1]
                   block == CASE first.kind = "IfElse" -> first.if_true
                              [] first.kind = "WhileLoop" -> first.body
                              [] OTHER -> <<>>
               IN \A name \in Names :
                      (BlockDeclares(block, name) /\ Len(block) = 1 /\ first.condition.kind = "Number") =>
                          /\ (first.kind = "IfElse" /\ first.if_false # <<>>
                                  /\ UsesName(first.if_false[1], name))
                                 => FailsWithUndeclaredVariable(FunctionChecked(nodes[k]))
                          /\ (first.kind = "IfElse" /\ first.if_false # <<>>
                                  /\ BlockDeclares(first.if_false, name) /\ Len(body) = 1)
                                 => FunctionChecked(nodes[k]).ok
                          /\ (Len(body) = 2 /\ (first.kind = "IfElse" => first.if_false = <<>>)
                                  /\ UsesName(body[2], name))
                                 => FailsWithUndeclaredVariable(FunctionChecked(nodes[k]))
                          /\ (Len(body) = 2 /\ (first.kind = "IfElse" => first.if_false = <<>>)
                                  /\ BlockDeclares(<<body[2]>>, name))
                                 => FunctionChecked(nodes[k]).ok

\* a call of a function that is in the symbol table without a return type
CallsWithoutReturnType(e) ==
    /\ e.kind = "FunctionCall"
    /\ e.name.value \in DOMAIN functions
    /\ ~functions[e.name.value].return_type.some

\* the params of the call are as many as the args of the callee and each
\* has the type of its arg
MatchingArguments(call) ==
    LET args == functions[call.name.value].args IN
    /\ Len(call.params) = Len(args)
    /\ \A i \in 1..Len(args) :
           /\ call.params[i].kind \in {"Number", "Variable"}
           /\ infer_expression_type(variables, call.params[i]) = TypeOk(args[i].data_type.value)

\* a call without return type stands in e where a value is needed: e is
\* the call and its value is needed (valued), or the call is an operand of
\* a binary expression or a param of a call inside e
RECURSIVE NeedsValueOfCall(_, _)
NeedsValueOfCall(e, valued) ==
    CASE e.kind = "FunctionCall" ->
            \/ valued /\ CallsWithoutReturnType(e)
            \/ \E i \in 1..Len(e.params) : NeedsValueOfCall(e.params[i], TRUE)
      [] e.kind = "BinaryExpression" ->
            NeedsValueOfCall(e.lhs, TRUE) \/ NeedsValueOfCall(e.rhs, TRUE)
      [] OTHER -> FALSE

\* the check has ended with one of the errors of the type checker
ReturnedError == result'.kind \notin {"Running", "Ok", "Panic"}

\* C27: a call of a function without return type, with matching arguments,
\* type-checks as a bare instruction; where its value is needed (value of
\* a declaration, an assignment or a return, operand of a binary
\* expression, param of a call) the checker returns an Error, and it never
\* aborts
C27_CallWithoutReturnType ==
    [][/\ (ExpressionInstruction /\ CallsWithoutReturnType(current)
               /\ MatchingArguments(current)) => Checked
       /\ (ExpressionInstruction /\ NeedsValueOfCall(current, FALSE)) => ReturnedError
       /\ ((\/ \E name \in Names, data_type \in DeclaredTypes :
                  VariableDeclaration(name, data_type)
            \/ \E name \in Names : VariableAssignment(name)
            \/ Return) /\ NeedsValueOfCall(current, TRUE)) => ReturnedError
       /\ result'.kind # "Panic"]_vars

\* the params of the call are numbers and variables, as many as the args
\* of the callee, each of a type that is structurally the type of its arg
StructurallyMatchingArguments(call) ==
    /\ call.kind = "FunctionCall"
    /\ call.name.value \in DOMAIN functions
    /\ LET args == functions[call.name.value].args IN
       /\ Len(call.params) = Len(args)
       /\ \A i \in 1..Len(args) :
              /\ call.params[i].kind \in {"Number", "Variable"}
              /\ infer_expression_type(variables, call.params[i]).ok
              /\ SameType(infer_expression_type(variables, call.params[i]).type,
                          args[i].data_type.value)

\* C29: data types are compared by their structure and not by the source
\* positions inside them: a value of the type `ptr int` is accepted where
\* `ptr int` is expected, as the value of a declaration or an assignment
\* and as the param of a call
C29_DataTypeEqualityIgnoresPositions ==
    [][/\ \A name \in Names, data_type \in DeclaredTypes :
              (/\ VariableDeclaration(name, data_type)
               /\ Inferred.ok
               /\ SameType(Inferred.type, data_type))
                  => result'.kind # "TypeMismatch"
       /\ \A name \in Names :
              (/\ VariableAssignment(name)
               /\ name \in DOMAIN variables
               /\ Inferred.ok
               /\ SameType(Inferred.type, variables[name].type_))
                  => result'.kind # "TypeMismatch"
       /\ (ExpressionInstruction /\ StructurallyMatchingArguments(current)) => Checked]_vars

(***************************************************************************)
(* The parser as an iterator (parser/mod.rs, struct Parser).  The cursor   *)
(* of the Peekable token stream is `pos`; every parse function returns     *)
(* Ok(value, pos) or Err(error, pos) with the cursor it leaves behind.     *)
(* This parser reads the token kinds FunctionDefinition and Number; tokens *)
(* of the kinds If and For are not among the streams fed to it.            *)
(***************************************************************************)
\* streams are concatenations of up to MaxItems top-level items
MaxItems == 2

\* Peekable::next : the cursor after one token was taken
Advance(pos) == IF pos <= Len(tokens) THEN pos + 1 ELSE pos

\* parser/error.rs : a parse error with the span it points at
ParseError(kind, err_span) == [kind |-> kind, err_span |-> err_span]

NoOperator == [value |-> "None", position |-> 0]

\* TryFrom<TokenKind> for BinaryOperator
BinaryOperatorOf(kind) ==
    CASE kind = "Less" -> "Less"
      [] kind = "Star" -> "Multiply"
      [] kind = "Plus" -> "Add"
      [] kind = "Minus" -> "Subtract"
      [] kind = "Slash" -> "Divide"
      [] OTHER -> "None"

\* Parser::parse_operator : the operator is consumed (when asked to) before
\* it is compared with min_operator
Parser_parse_operator(min_operator, consume, pos) ==
    IF Peek(pos).kind \in {"EndOfLine", "None"} \/ BinaryOperatorOf(Peek(pos).kind) = "None"
    THEN [operator |-> NoOperator, pos |-> pos]
    ELSE LET operator == [value |-> BinaryOperatorOf(Peek(pos).kind), position |-> Peek(pos).position]
             after == IF consume THEN pos + 1 ELSE pos
         IN IF min_operator = "None" \/ Precedence(operator.value) > Precedence(min_operator)
            THEN [operator |-> operator, pos |-> after]
            ELSE [operator |-> NoOperator, pos |-> after]

\* Parser::consume_closing_parentheses
Parser_consume_closing_parentheses(pos) ==
    IF Peek(pos).kind = "ClosingParentheses" THEN Ok("()", pos + 1)
    ELSE Err(ParseError("ExpectedClosingRoundParentheses", Peek(pos).position), Advance(pos))

RECURSIVE Parser_parse_primary_expression(_)
RECURSIVE Parser_parse_binary_operation_rhs(_, _, _)
RECURSIVE Parser_parse_function_parameters_loop(_, _)
RECURSIVE Parser_parse_function_arguments_loop(_, _)
RECURSIVE Parser_parse_type(_)
RECURSIVE Parser_next(_)

\* Parser::parse_binary_expression
Parser_parse_binary_expression(pos) ==
    Try(Parser_parse_primary_expression(pos),
        LAMBDA lhs : Parser_parse_binary_operation_rhs("None", lhs.value, lhs.pos))

\* Parser::parse_binary_operation_rhs : one turn of the loop, the rest of
\* the loop is the recursive call with the merged lhs
Parser_parse_binary_operation_rhs(min_operator, lhs, pos) ==
    LET Turn(read) ==
            IF read.operator = NoOperator THEN Ok(lhs, read.pos)
            ELSE Try(Parser_parse_primary_expression(read.pos), LAMBDA rhs :
                 Try(IF Parser_parse_operator(read.operator.value, FALSE, rhs.pos).operator
                        # NoOperator
                     THEN Parser_parse_binary_operation_rhs(read.operator.value, rhs.value, rhs.pos)
                     ELSE rhs, LAMBDA absorbed :
                 Parser_parse_binary_operation_rhs(
                     min_operator, BinaryExpression(lhs, read.operator, absorbed.value),
                     absorbed.pos)))
    IN Turn(Parser_parse_operator(min_operator, TRUE, pos))

\* Parser::parse_function_parameters : `(` was peeked by the caller
Parser_parse_function_parameters(pos) ==
    IF Peek(pos + 1).kind = "ClosingParentheses"
    THEN Try(Parser_consume_closing_parentheses(pos + 1), LAMBDA close : Ok(<<>>, close.pos))
    ELSE Parser_parse_function_parameters_loop(<<>>, pos + 1)

Parser_parse_function_parameters_loop(parameters, pos) ==
    Try(Parser_parse_primary_expression(pos), LAMBDA argument :
        IF Peek(argument.pos).kind = "Comma"
        THEN Parser_parse_function_parameters_loop(Append(parameters, argument.value),
                                                   argument.pos + 1)
        ELSE Try(Parser_consume_closing_parentheses(argument.pos), LAMBDA close :
                 Ok(Append(parameters, argument.value), close.pos)))

\* Parser::parse_identifier_expression (with parse_function_call and
\* parse_variable) : an Identifier was peeked by the caller
Parser_parse_identifier_expression(pos) ==
    IF Peek(pos + 1).kind = "OpeningParentheses"
    THEN Try(Parser_parse_function_parameters(pos + 1), LAMBDA params :
             Ok(FunctionCall([value |-> Peek(pos).value, position |-> Peek(pos).position],
                             params.value), params.pos))
    ELSE Ok(VariableExpr(Peek(pos).value, Peek(pos).position), pos + 1)

\* Parser::parse_parentheses : `(` was peeked by the caller
Parser_parse_parentheses(pos) ==
    Try(Parser_parse_binary_expression(pos + 1), LAMBDA inner_expression :
    Try(Parser_consume_closing_parentheses(inner_expression.pos), LAMBDA close :
        Ok(inner_expression.value, close.pos)))

\* Parser::parse_primary_expression (with parse_number) : the token that is
\* no expression is peeked, not taken
Parser_parse_primary_expression(pos) ==
    CASE Peek(pos).kind = "Identifier" -> Parser_parse_identifier_expression(pos)
      [] Peek(pos).kind = "Number" -> Ok(NumberExpr("Number", Peek(pos).position), pos + 1)
      [] Peek(pos).kind = "OpeningParentheses" -> Parser_parse_parentheses(pos)
      [] OTHER -> Err(ParseError("ExpectedExpression", Peek(pos).position), pos)

\* Parser::parse_type
Parser_parse_type(pos) ==
    CASE Peek(pos).kind = "Identifier" /\ Peek(pos).value = "ptr" ->
            Try(Parser_parse_type(pos + 1), LAMBDA type_to_point_to :
                Ok([value |-> <<"Pointer", type_to_point_to.value>>,
                    position |-> Peek(pos).position], type_to_point_to.pos))
      [] Peek(pos).kind = "Identifier" /\ Peek(pos).value # "ptr" ->
            IF BasicDataTypeOf(Peek(pos).value) # "None"
            THEN Ok([value |-> <<"Basic", BasicDataTypeOf(Peek(pos).value)>>,
                     position |-> Peek(pos).position], pos + 1)
            ELSE Ok([value |-> <<"Struct", Peek(pos).value>>,
                     position |-> Peek(pos).position], pos + 1)
      [] OTHER -> Err(ParseError("ExpectedArgumentType", Peek(pos).position), Advance(pos))

\* Parser::parse_function_argument_type_list : `(` was peeked by the caller
Parser_parse_function_argument_type_list(pos) ==
    IF Peek(pos + 1).kind = "ClosingParentheses"
    THEN Try(Parser_consume_closing_parentheses(pos + 1), LAMBDA close : Ok(<<>>, close.pos))
    ELSE Parser_parse_function_arguments_loop(<<>>, pos + 1)

Parser_parse_function_arguments_loop(arguments, pos) ==
    IF Peek(pos).kind # "Identifier"
    THEN Err(ParseError("ExpectedArgumentName", Peek(pos).position), Advance(pos))
    ELSE IF Peek(pos + 1).kind # "Colon"
    THEN Err(ParseError("ExpectedColonBetweenNameAndType", Peek(pos + 1).position),
             Advance(pos + 1))
    ELSE Try(Parser_parse_type(pos + 2), LAMBDA data_type :
             IF Peek(data_type.pos).kind = "Comma"
             THEN Parser_parse_function_arguments_loop(
                      Append(arguments, [name |-> Peek(pos), data_type |-> data_type.value]),
                      data_type.pos + 1)
             ELSE Try(Parser_consume_closing_parentheses(data_type.pos), LAMBDA close :
                      Ok(Append(arguments, [name |-> Peek(pos), data_type |-> data_type.value]),
                         close.pos)))

\* Parser::parse_function_prototype : the token in the place of the name is
\* taken, the one in the place of `(` is peeked
Parser_parse_function_prototype(pos) ==
    IF Peek(pos).kind # "Identifier"
    THEN Err(ParseError("ExpectedIdentifier", Peek(pos).position), Advance(pos))
    ELSE IF Peek(pos + 1).kind # "OpeningParentheses"
    THEN Err(ParseError("ExpectedOpeningRoundParentheses", Peek(pos + 1).position), pos + 1)
    ELSE Try(Parser_parse_function_argument_type_list(pos + 1), LAMBDA args :
             Ok([name |-> [value |-> Peek(pos).value, position |-> Peek(pos).position],
                 args |-> args.value], args.pos))

\* Parser::parse_function_definition : FunctionDefinition was peeked by the caller
Parser_parse_function_definition(pos) ==
    Try(Parser_parse_function_prototype(pos + 1), LAMBDA prototype :
    Try(Parser_parse_binary_expression(prototype.pos), LAMBDA body :
        Ok([kind |-> "Function", prototype |-> prototype.value, body |-> body.value],
           body.pos)))

\* Parser::parse_extern_function : Extern was peeked by the caller
Parser_parse_extern_function(pos) ==
    Try(Parser_parse_function_prototype(pos + 1), LAMBDA prototype :
        Ok([kind |-> "FunctionPrototype", prototype |-> prototype.value], prototype.pos))

\* Parser::parse_top_level_expression : the expression becomes the body of
\* an anonymous function named after the position of the token behind it
Parser_parse_top_level_expression(pos) ==
    Try(Parser_parse_binary_expression(pos), LAMBDA body :
        Ok([kind |-> "Function",
            prototype |-> [name |-> [value |-> <<"__anonymous_offset", Peek(body.pos).position>>,
                                     position |-> Peek(body.pos).position],
                           args |-> <<>>],
            body |-> body.value], body.pos))

\* the items of Iterator::next
NoItem(pos) == [kind |-> "None", pos |-> pos]

SomeItem(res) == [kind |-> "Some", result |-> res, pos |-> res.pos]

\* Iterator::next for Parser
Parser_next(pos) ==
    CASE Peek(pos).kind = "None" -> NoItem(pos)
      [] Peek(pos).kind = "FunctionDefinition" -> SomeItem(Parser_parse_function_definition(pos))
      [] Peek(pos).kind = "Extern" -> SomeItem(Parser_parse_extern_function(pos))
      [] Peek(pos).kind = "EndOfLine" -> Parser_next(pos + 1)
      [] OTHER -> SomeItem(Parser_parse_top_level_expression(pos))

(***************************************************************************)
(* Token streams pulled through the iterator: top-level items, well formed *)
(* and broken, one after the other                                         *)
(***************************************************************************)
TopLevelItems ==
    { <<Tok("Extern", ""), Tok("Identifier", "f"), Tok("OpeningParentheses", ""),
        Tok("ClosingParentheses", "")>>,
      <<Tok("Extern", ""), Tok("Number", "")>>,
      <<Tok("Extern", ""), Tok("Identifier", "f")>>,
      <<Tok("FunctionDefinition", ""), Tok("Identifier", "g"), Tok("OpeningParentheses", ""),
        Tok("Identifier", "x"), Tok("Colon", ""), Tok("Identifier", "ptr"), Tok("Identifier", "int"),
        Tok("ClosingParentheses", ""), Tok("Identifier", "x")>>,
      <<Tok("FunctionDefinition", ""), Tok("Identifier", "g"), Tok("OpeningParentheses", ""),
        Tok("Identifier", "x"), Tok("Comma", "")>>,
      <<Tok("Identifier", "x"), Tok("Plus", ""), Tok("Number", ""), Tok("Star", ""),
        Tok("Number", ""), Tok("Less", ""), Tok("Number", "")>>,
      <<Tok("Identifier", "f"), Tok("OpeningParentheses", ""), Tok("Number", ""),
        Tok("Comma", ""), Tok("Identifier", "x"), Tok("ClosingParentheses", "")>>,
      <<Tok("OpeningParentheses", ""), Tok("Number", "")>>,
      <<Tok("ClosingParentheses", "")>>,
      <<Tok("Number", ""), Tok("Plus", "")>>,
      <<Tok("EndOfLine", "")>> }

RECURSIVE Concatenations(_)
Concatenations(n) ==
    IF n = 0 THEN {<<>>}
    ELSE Concatenations(n - 1)
         \cup {ts \o item : ts \in Concatenations(n - 1), item \in TopLevelItems}

\* Parser::new : nothing pulled yet
ParserIterInit ==
    /\ tokens \in {Positioned(ts) : ts \in Concatenations(MaxItems)}
    /\ parser_op = "none"
    /\ parsed = [item |-> [kind |-> "New", pos |-> 1], failed |-> FALSE]
    /\ CheckerIdle
    /\ LexerIdle
    /\ SourceIdle
    /\ EmitterIdle

\* one pull; `failed` records that an Err was yielded by an earlier pull
ParserPull ==
    /\ parser_op' = "next"
    /\ parsed' = [item |-> Parser_next(parsed.item.pos),
                  failed |-> parsed.failed
                             \/ (parsed.item.kind = "Some" /\ ~parsed.item.result.ok)]
    /\ UNCHANGED <<tokens, checker_vars, lexer_vars, source_vars, emitter_vars>>

ParserIterNext == ParserPull

ParserIterSpec == ParserIterInit /\ [][ParserIterNext]_vars

\* C14: once a pull has yielded an Err, every later pull yields None
C14_ErrEndsIteration ==
    (parser_op = "next" /\ parsed.failed) => parsed.item.kind = "None"

(***************************************************************************)
(* The lexer (lexer/mod.rs).  Strings are sequences of characters.  The    *)
(* position Enumerate gives a character is its index counted from 0, that  *)
(* is `cursor - 1` for the character at the cursor.  A pull runs from      *)
(* LexerPull, through the turns of one read loop, to the turn that breaks  *)
(* the loop and yields.                                                    *)
(***************************************************************************)
\* length of the source texts fed to the lexer
MaxLetters == 3
\* characters a comment collects before the model stops following the loop
MaxComment == 3

LetterAlphabet == {"i", "f", "1", ".", "=", "/", "#", "\n", " ", "@", "+"}

\* char::is_alphabetic, char::is_numeric on the characters of the alphabet
is_alphabetic(letter) == letter \in {"i", "f"}

is_numeric(letter) == letter \in {"1"}

\* lexer/mod.rs is_comment
is_comment(letter) == letter = "#"

\* lexer/mod.rs is_special_char
is_special_char(letter) ==
    letter \in {"+", "-", "=", "<", "*", "(", ")", "{", "}", ".", ":", ",", "/", ";"}

\* lexer/mod.rs is_skip_letter
is_skip_letter(letter) == letter \in {"\r", " ", "\t"}

\* Peekable::peek on letters
PeekLetter(pos) == IF pos <= Len(letters) THEN letters[pos] ELSE "None"

\* miette::SourceSpan::new(offset, length)
SourceSpan(offset, length) == [offset |-> offset, length |-> length]

\* a Token: the TokenKind, with what it carries, and the span
SpannedToken(kind, value, span) == [data |-> [kind |-> kind, value |-> value], position |-> span]

LexerError(kind, err_span) == [kind |-> kind, err_span |-> err_span]

RECURSIVE skip_ignore_letters(_)
\* Lexer::skip_ignore_letters (iter_advance_while) : the cursor it stops at
skip_ignore_letters(pos) ==
    IF pos <= Len(letters) /\ is_skip_letter(letters[pos])
    THEN skip_ignore_letters(pos + 1)
    ELSE pos

\* Lexer::on_ignore_letter
on_ignore_letter(pos) == pos > Len(letters) \/ is_skip_letter(letters[pos])

\* Lexer::goto_normal_letter
goto_normal_letter(pos) == IF ~on_ignore_letter(pos) THEN pos ELSE skip_ignore_letters(pos)

\* Lexer::read_special, the arms of one character
SpecialKind(letter) ==
    CASE letter = "+" -> "Plus"
      [] letter = "-" -> "Minus"
      [] letter = "*" -> "Star"
      [] letter = "," -> "Comma"
      [] letter = "(" -> "OpeningParentheses"
      [] letter = ")" -> "ClosingParentheses"
      [] letter = "{" -> "OpeningCurlyBraces"
      [] letter = "}" -> "ClosingCurlyBraces"
      [] letter = "<" -> "Less"
      [] letter = "." -> "Dot"
      [] letter = ":" -> "Colon"
      [] letter = "/" -> "Slash"
      [] letter = ";" -> "Semicolon"
      [] OTHER -> "None"

\* Lexer::read_special : the character at pos is taken; in the arm of `=`
\* the third character is taken with its position, which replaces the
\* position of the first one
read_special(pos) ==
    CASE SpecialKind(letters[pos]) # "None" ->
            Ok(SpannedToken(SpecialKind(letters[pos]), <<>>, SourceSpan(pos - 1, 1)), pos + 1)
      [] letters[pos] = "=" /\ PeekLetter(pos + 1) # "/" ->
            Ok(SpannedToken("Equal", <<>>, SourceSpan(pos - 1, 1)), pos + 1)
      [] letters[pos] = "=" /\ PeekLetter(pos + 1) = "/" /\ PeekLetter(pos + 2) = "=" ->
            Ok(SpannedToken("NotEqual", <<>>, SourceSpan(pos + 1, 3)), pos + 3)
      [] letters[pos] = "=" /\ PeekLetter(pos + 1) = "/"
                            /\ PeekLetter(pos + 2) \notin {"=", "None"} ->
            Err(LexerError("IllegalSymbol", SourceSpan(pos + 1, 1)), pos + 3)
      [] letters[pos] = "=" /\ PeekLetter(pos + 1) = "/" /\ PeekLetter(pos + 2) = "None" ->
            Err(LexerError("IllegalSymbol", SourceSpan(pos - 1, 1)), pos + 2)
      [] OTHER -> Err(LexerError("UnknownSymbol", SourceSpan(pos - 1, 1)), pos + 1)

\* Lexer::parse_string : keyword or identifier
parse_string(string) ==
    CASE string.data = <<"d", "e", "f">> -> SpannedToken("FunctionDefinition", <<>>, string.position)
      [] string.data = <<"e", "x", "t", "e", "r", "n">> -> SpannedToken("Extern", <<>>, string.position)
      [] string.data = <<"b", "i", "t", "o", "r">> -> SpannedToken("BitOr", <<>>, string.position)
      [] string.data = <<"b", "i", "t", "a", "n", "d">> -> SpannedToken("BitAnd", <<>>, string.position)
      [] string.data = <<"m", "o", "d">> -> SpannedToken("Modulus", <<>>, string.position)
      [] string.data = <<"i", "f">> -> SpannedToken("If", <<>>, string.position)
      [] string.data = <<"e", "l", "s", "e">> -> SpannedToken("Else", <<>>, string.position)
      [] string.data = <<"f", "o", "r">> -> SpannedToken("For", <<>>, string.position)
      [] OTHER -> SpannedToken("Identifier", string.data, string.position)

\* the value of a decimal digit
DigitValue(letter) ==
    CASE letter = "0" -> 0 [] letter = "1" -> 1 [] letter = "2" -> 2 [] letter = "3" -> 3
      [] letter = "4" -> 4 [] letter = "5" -> 5 [] letter = "6" -> 6 [] letter = "7" -> 7
      [] letter = "8" -> 8 [] letter = "9" -> 9

RECURSIVE Mantissa(_)
\* the digits of a number string read as a decimal, the dot left out
Mantissa(data) ==
    IF data = <<>> THEN 0
    ELSE LET init == SubSeq(data, 1, Len(data) - 1) IN
         IF data[Len(data)] = "." THEN Mantissa(init)
         ELSE 10 * Mantissa(init) + DigitValue(data[Len(data)])

RECURSIVE Scale(_)
\* the number of digits behind the dot
Scale(data) ==
    IF data = <<>> \/ data[Len(data)] = "." THEN 0
    ELSE IF \E i \in 1..Len(data) : data[i] = "."
         THEN 1 + Scale(SubSeq(data, 1, Len(data) - 1))
         ELSE 0

\* str::parse::<f64> on a string of digits and dots : at most one dot and a digit
ParsesAsF64(data) ==
    /\ Cardinality({i \in 1..Len(data) : data[i] = "."}) <= 1
    /\ \E i \in 1..Len(data) : data[i] # "."

\* Lexer::parse_number
lexer_parse_number(number_str) ==
    IF ParsesAsF64(number_str.data)
    THEN [ok |-> TRUE,
          value |-> SpannedToken("Number", <<Mantissa(number_str.data), Scale(number_str.data)>>,
                                 number_str.position)]
    ELSE [ok |-> FALSE, error |-> LexerError("ParseNumberError", number_str.position)]

\* what a pull returned: None, or Some(Ok(token)) / Some(Err(error)); `from`
\* is the cursor the pull found, `start` the cursor after the skip phase
NoneItem(from, start) == [kind |-> "None", from |-> from, start |-> start]

SomeOk(token, from, start) ==
    [kind |-> "Some", ok |-> TRUE, value |-> token, from |-> from, start |-> start]

SomeErr(error, from, start) ==
    [kind |-> "Some", ok |-> FALSE, error |-> error, from |-> from, start |-> start]

Pending(from, start) == [kind |-> "Pending", from |-> from, start |-> start]

LexerInputs == UNION {[1..n -> LetterAlphabet] : n \in 0..MaxLetters}

\* Lexer::new
LexerInit ==
    /\ letters \in LexerInputs
    /\ cursor = 1
    /\ lexer_pc = "next"
    /\ buffer = [data |-> <<>>, first_position |-> 0, last_position |-> 0]
    /\ lexed = [kind |-> "New", from |-> 1, start |-> 1]
    /\ tokens = <<>> /\ parser_op = "none" /\ parsed = Ok("none", 1)
    /\ CheckerIdle
    /\ SourceIdle
    /\ EmitterIdle

\* Lexer::tokenize_next_item up to the read loop it enters: the skip phase,
\* the peek and the arm of the match.  The read functions take their first
\* character here; the arm of the unknown symbol takes nothing.
LexerPull ==
    /\ lexer_pc = "next"
    /\ LET start == skip_ignore_letters(cursor)
           letter == PeekLetter(start)
       IN CASE letter = "None" ->
                  /\ lexed' = NoneItem(cursor, start)
                  /\ cursor' = start
                  /\ UNCHANGED <<lexer_pc, buffer>>
            [] letter # "None" /\ (is_alphabetic(letter) \/ is_numeric(letter)) ->
                  /\ lexer_pc' = IF is_alphabetic(letter) THEN "read_string" ELSE "read_number"
                  /\ buffer' = [data |-> <<letter>>, first_position |-> start - 1,
                                last_position |-> start - 1]
                  /\ cursor' = start + 1
                  /\ lexed' = Pending(cursor, start)
            [] is_comment(letter) ->
                  /\ lexer_pc' = "read_comment"
                  /\ buffer' = [data |-> <<>>, first_position |-> start - 1,
                                last_position |-> start - 1]
                  /\ cursor' = start + 1
                  /\ lexed' = Pending(cursor, start)
            [] letter = "\n" ->
                  /\ lexed' = SomeOk(SpannedToken("EndOfLine", <<>>, SourceSpan(start - 1, 1)),
                                    cursor, start)
                  /\ cursor' = start + 1
                  /\ UNCHANGED <<lexer_pc, buffer>>
            [] is_special_char(letter) ->
                  /\ lexed' = LET special == read_special(start) IN
                             IF special.ok THEN SomeOk(special.value, cursor, start)
                             ELSE SomeErr(special.error, cursor, start)
                  /\ cursor' = read_special(start).pos
                  /\ UNCHANGED <<lexer_pc, buffer>>
            [] OTHER ->
                  /\ lexed' = SomeErr(LexerError("UnknownSymbol", SourceSpan(start - 1, 1)),
                                     cursor, start)
                  /\ cursor' = start
                  /\ UNCHANGED <<lexer_pc, buffer>>
    /\ UNCHANGED <<letters, parser_vars, checker_vars, source_vars, emitter_vars>>

\* Lexer::read_string, one turn of the loop; the turn that breaks returns
\* to tokenize_next_item, which yields parse_string of what was read
ReadStringTurn ==
    /\ lexer_pc = "read_string"
    /\ IF is_alphabetic(PeekLetter(cursor)) \/ is_numeric(PeekLetter(cursor))
       THEN /\ buffer' = [buffer EXCEPT !.data = Append(@, PeekLetter(cursor))]
            /\ cursor' = cursor + 1
            /\ UNCHANGED <<lexer_pc, lexed>>
       ELSE /\ lexed' = SomeOk(parse_string([data |-> buffer.data,
                                            position |-> SourceSpan(buffer.first_position,
                                                                    Len(buffer.data))]),
                              lexed.from, lexed.start)
            /\ lexer_pc' = "next"
            /\ UNCHANGED <<buffer, cursor>>
    /\ UNCHANGED <<letters, parser_vars, checker_vars, source_vars, emitter_vars>>

\* Lexer::read_number, one turn of the loop: a digit is pushed; for a dot
\* the `letter` that is pushed is the first character of the number
ReadNumberTurn ==
    /\ lexer_pc = "read_number"
    /\ IF is_numeric(PeekLetter(cursor)) \/ PeekLetter(cursor) = "."
       THEN /\ buffer' = [buffer EXCEPT !.data =
                             Append(@, IF is_numeric(PeekLetter(cursor)) THEN PeekLetter(cursor)
                                       ELSE buffer.data[1])]
            /\ cursor' = cursor + 1
            /\ UNCHANGED <<lexer_pc, lexed>>
       ELSE /\ lexed' = LET number == lexer_parse_number(
                                         [data |-> buffer.data,
                                          position |-> SourceSpan(buffer.first_position,
                                                                  Len(buffer.data))])
                       IN IF number.ok THEN SomeOk(number.value, lexed.from, lexed.start)
                          ELSE SomeErr(number.error, lexed.from, lexed.start)
            /\ lexer_pc' = "next"
            /\ UNCHANGED <<buffer, cursor>>
    /\ UNCHANGED <<letters, parser_vars, checker_vars, source_vars, emitter_vars>>

\* Lexer::read_comment, one turn of the loop.  At a line break the break
\* and the skip letters behind it are taken and the loop goes on when a
\* comment follows; any other character is pushed and not taken; at the
\* end of the letters the loop breaks.  The loop is followed while the
\* comment is shorter than MaxComment.
ReadCommentTurn ==
    /\ lexer_pc = "read_comment"
    /\ CASE PeekLetter(cursor) = "\n" /\ is_comment(PeekLetter(goto_normal_letter(cursor + 1))) ->
               /\ Len(buffer.data) < MaxComment
               /\ buffer' = [buffer EXCEPT !.data = Append(@, "\n")]
               /\ cursor' = goto_normal_letter(cursor + 1)
               /\ UNCHANGED <<lexer_pc, lexed>>
         [] PeekLetter(cursor) \notin {"\n", "None"} ->
               /\ Len(buffer.data) < MaxComment
               /\ buffer' = [buffer EXCEPT !.data = Append(@, PeekLetter(cursor)),
                                           !.last_position = cursor - 1]
               /\ UNCHANGED <<cursor, lexer_pc, lexed>>
         [] OTHER ->
               /\ cursor' = IF PeekLetter(cursor) = "\n" THEN goto_normal_letter(cursor + 1)
                            ELSE cursor
               /\ lexed' = SomeOk(SpannedToken("Comment", buffer.data,
                                     SourceSpan(buffer.first_position,
                                                buffer.last_position - buffer.first_position)),
                                 lexed.from, lexed.start)
               /\ lexer_pc' = "next"
               /\ UNCHANGED buffer
    /\ UNCHANGED <<letters, parser_vars, checker_vars, source_vars, emitter_vars>>

LexerNext == LexerPull \/ ReadStringTurn \/ ReadNumberTurn \/ ReadCommentTurn

LexerSpec == LexerInit /\ [][LexerNext]_vars

\* every step that can be taken is taken at some time
LexerFairSpec == LexerSpec /\ WF_vars(LexerNext)

(***************************************************************************)
(* Properties of the lexer                                                 *)
(***************************************************************************)
\* the last pull has returned a token or an error
Yielded == lexer_pc = "next" /\ lexed.kind = "Some"

\* C15: every pull that returns a token or an error has consumed at least
\* one character
C15_PullConsumes ==
    Yielded => cursor > lexed.from

\* C16: `=/=` is one NotEqual token whose span starts at the first `=` and
\* covers the three characters; `=/` followed by another character or by
\* the end is IllegalSymbol; `=` followed by anything else is Equal and
\* the character behind it is not consumed
C16_NotEqualToken ==
    (Yielded /\ PeekLetter(lexed.start) = "=") =>
        CASE PeekLetter(lexed.start + 1) = "/" /\ PeekLetter(lexed.start + 2) = "=" ->
                 /\ lexed.ok
                 /\ lexed.value = SpannedToken("NotEqual", <<>>, SourceSpan(lexed.start - 1, 3))
                 /\ cursor = lexed.start + 3
          [] PeekLetter(lexed.start + 1) = "/" /\ PeekLetter(lexed.start + 2) # "=" ->
                 ~lexed.ok /\ lexed.error.kind = "IllegalSymbol"
          [] OTHER ->
                 /\ lexed.ok
                 /\ lexed.value.data.kind = "Equal"
                 /\ cursor = lexed.start + 1

\* C17: the span of every token starts at the first character of the
\* token and ends inside the source; the span of a token that is no
\* comment ends at the last character the token was built from
C17_SpanInsideSource ==
    (Yielded /\ lexed.ok) =>
        LET span == lexed.value.position IN
        /\ span.offset = lexed.start - 1
        /\ span.offset < Len(letters)
        /\ span.offset + span.length <= Len(letters)
        /\ is_comment(PeekLetter(lexed.start)) \/ span.offset + span.length = cursor - 1

C19_NumberOfTheRun ==
    (Yielded /\ is_numeric(PeekLetter(lexed.start))) =>
        LET run == SubSeq(letters, lexed.start, cursor - 1) IN
        /\ buffer.data = run
        /\ IF ParsesAsF64(run)
           THEN lexed.ok /\ lexed.value.data = [kind |-> "Number", value |-> <<Mantissa(run), Scale(run)>>]
           ELSE ~lexed.ok /\ lexed.error.kind = "ParseNumberError"

(***************************************************************************)
(* The source and its iterator (source/mod.rs, source/position.rs)         *)
(***************************************************************************)
\* length of the texts a Source is built from
MaxText == 4

TextAlphabet == {"a", "b", "\n"}

Texts == UNION {[1..n -> TextAlphabet] : n \in 0..MaxText}

RECURSIVE Lines(_)
\* str::lines : the text split at the line breaks, without them; a line
\* break at the end of the text starts no line
Lines(string) ==
    IF string = <<>> THEN <<>>
    ELSE IF \E i \in 1..Len(string) : string[i] = "\n"
         THEN LET break == CHOOSE i \in 1..Len(string) :
                               /\ string[i] = "\n"
                               /\ \A j \in 1..(i - 1) : string[j] # "\n"
              IN <<SubSeq(string, 1, break - 1)>> \o Lines(SubSeq(string, break + 1, Len(string)))
         ELSE <<string>>

\* Source::new : the content as lines of chars
Source_new(string) == Lines(string)

\* Position::default
Position_default == [line |-> 1, column |-> 1, offset |-> 0]

\* Vec::get : the element at the index counted from 0
Get(vec, index) == IF index + 1 <= Len(vec) THEN <<vec[index + 1]>> ELSE <<>>

\* a Symbol: the char with the range start..end
Symbol(char_, start, end) == [kind |-> "Some", char |-> char_, start |-> start, end |-> end]

\* SourceIter::next : the item and the position left behind
SourceIter_next(lines, pos) ==
    IF Get(lines, pos.line) = <<>> THEN [item |-> [kind |-> "None"], position |-> pos]
    ELSE LET line == Get(lines, pos.line)[1]
             char_ == IF Get(line, pos.column) # <<>> THEN Get(line, pos.column)[1] ELSE "\n"
         IN [item |-> Symbol(char_, pos, pos),
             position |-> IF char_ = "\n"
                          THEN [pos EXCEPT !.line = pos.line + 1, !.column = 0]
                          ELSE [pos EXCEPT !.column = pos.column + 1]]

\* Source::new and Source::iter
SourceInit ==
    /\ source_text \in {Source_new(string) : string \in Texts}
    /\ iter_position = Position_default
    /\ yielded = <<>>
    /\ tokens = <<>> /\ parser_op = "none" /\ parsed = Ok("none", 1)
    /\ CheckerIdle
    /\ LexerIdle
    /\ EmitterIdle

\* one pull; the pulls are followed up to the first None
SourcePull ==
    /\ IF yielded = <<>> THEN TRUE ELSE yielded[Len(yielded)].kind # "None"
    /\ yielded' = Append(yielded, SourceIter_next(source_text, iter_position).item)
    /\ iter_position' = SourceIter_next(source_text, iter_position).position
    /\ UNCHANGED <<source_text, parser_vars, checker_vars, lexer_vars, emitter_vars>>

SourceNext == SourcePull

SourceSpec == SourceInit /\ [][SourceNext]_vars

RECURSIVE WithLineBreaks(_)
\* every line followed by one line break
WithLineBreaks(lines) ==
    IF lines = <<>> THEN <<>>
    ELSE lines[1] \o <<"\n">> \o WithLineBreaks(Tail(lines))

RECURSIVE PlaceOf(_, _)
\* line and column, counted from 0, of the k-th character of WithLineBreaks
PlaceOf(lines, k) ==
    IF k <= Len(lines[1]) + 1 THEN [line |-> 0, column |-> k - 1]
    ELSE LET rest == PlaceOf(Tail(lines), k - Len(lines[1]) - 1) IN
         [rest EXCEPT !.line = rest.line + 1]

\* C20: when the iterator has returned None it has yielded, for each line
\* in order, every character of the line and one line break, the first
\* character of the text first, each with a span whose start is its end,
\* the line counted from the initial line and the column, in every line,
\* from the initial column
C20_EveryCharacterOfEveryLine ==
    (yielded # <<>> /\ yielded[Len(yielded)].kind = "None") =>
        /\ Len(yielded) = Len(WithLineBreaks(source_text)) + 1
        /\ \A k \in 1..(Len(yielded) - 1) :
              /\ yielded[k].char = WithLineBreaks(source_text)[k]
              /\ yielded[k].start = yielded[k].end
              /\ yielded[k].start.line = Position_default.line + PlaceOf(source_text, k).line
              /\ yielded[k].start.column
                     = Position_default.column + PlaceOf(source_text, k).column

(***************************************************************************)
(* The C emitters.  emitter/c/mod.rs is the emitter main.rs runs           *)
(* (emitter::C::codegen); emitter_c.rs is the emitter of the ftlcc binary, *)
(* for the AST without Equal and NotEqual.  The text written is the        *)
(* sequence of its characters.  A variable is written as its name and a    *)
(* number with Display: the Int literal of the model is 1, the Float       *)
(* literal 1.5.                                                            *)
(***************************************************************************)
RECURSIVE Emitter_expression(_)
RECURSIVE Emitter_params(_, _)
RECURSIVE EmitterC_expression(_)
RECURSIVE EmitterC_function_call_params(_, _)

\* the characters of the names the emitted expressions use
NameText(name) ==
    CASE name = "a" -> <<"a">>
      [] name = "b" -> <<"b">>
      [] name = "f" -> <<"f">>

\* emitter/c/mod.rs Emitter::number
Emitter_number(number) ==
    IF number.value = "Int" THEN <<"1">> ELSE <<"1", ".", "5">>

\* emitter/c/mod.rs Emitter::variable
Emitter_variable(variable) == NameText(variable.value)

\* emitter/c/mod.rs Emitter::binary_expression : lhs, " op ", rhs
Emitter_binary_expression(binary_expression) ==
    Emitter_expression(binary_expression.lhs)
        \o <<" ">>
        \o (CASE binary_expression.operator.value = "Add" -> <<"+">>
              [] binary_expression.operator.value = "Subtract" -> <<"-">>
              [] binary_expression.operator.value = "Multiply" -> <<"*">>
              [] binary_expression.operator.value = "Divide" -> <<"/">>
              [] binary_expression.operator.value = "Less" -> <<"<">>
              [] binary_expression.operator.value = "Greater" -> <<">">>
              [] binary_expression.operator.value = "Equal" -> <<"=", "=">>
              [] binary_expression.operator.value = "NotEqual" -> <<"=", "/", "=">>)
        \o <<" ">>
        \o Emitter_expression(binary_expression.rhs)

\* the loop `for param in function_call.params` of Emitter::function_call
Emitter_params(params, i) ==
    IF i > Len(params) THEN <<>>
    ELSE Emitter_expression(params[i]) \o Emitter_params(params, i + 1)

\* emitter/c/mod.rs Emitter::function_call : name `(` params `);` newline
Emitter_function_call(call) ==
    NameText(call.name.value) \o <<"(">>
        \o Emitter_params(call.params, 1) \o <<")", ";", "\n">>

\* emitter/c/mod.rs Emitter::expression
Emitter_expression(e) ==
    CASE e.kind = "BinaryExpression" -> Emitter_binary_expression(e)
      [] e.kind = "FunctionCall" -> Emitter_function_call(e)
      [] e.kind = "Number" -> Emitter_number(e)
      [] e.kind = "Variable" -> Emitter_variable(e)

\* emitter_c.rs EmitterC::binary_operator
EmitterC_binary_operator(binary_operator) ==
    CASE binary_operator.value = "Less" -> <<"<">>
      [] binary_operator.value = "Greater" -> <<">">>
      [] binary_operator.value = "Add" -> <<"+">>
      [] binary_operator.value = "Subtract" -> <<"-">>
      [] binary_operator.value = "Multiply" -> <<"*">>
      [] binary_operator.value = "Divide" -> <<"/">>

\* emitter_c.rs EmitterC::binary_expression : `(` lhs ` ` op ` ` rhs `)`
EmitterC_binary_expression(binary_expression) ==
    <<"(">> \o EmitterC_expression(binary_expression.lhs)
        \o <<" ">> \o EmitterC_binary_operator(binary_expression.operator) \o <<" ">>
        \o EmitterC_expression(binary_expression.rhs) \o <<")">>

\* emitter_c.rs EmitterC::function_call_params : the params with `, `
\* between them
EmitterC_function_call_params(params, i) ==
    IF i > Len(params) THEN <<>>
    ELSE EmitterC_expression(params[i])
             \o (IF i < Len(params) THEN <<",", " ">> ELSE <<>>)
             \o EmitterC_function_call_params(params, i + 1)

\* emitter_c.rs EmitterC::expression (function_call, number and variable
\* with it)
EmitterC_expression(e) ==
    CASE e.kind = "BinaryExpression" -> EmitterC_binary_expression(e)
      [] e.kind = "FunctionCall" ->
            NameText(e.name.value) \o <<"(">>
                \o EmitterC_function_call_params(e.params, 1) \o <<")">>
      [] e.kind = "Number" ->
            IF e.value = "Int" THEN <<"1">> ELSE <<"1", ".", "5">>
      [] e.kind = "Variable" -> NameText(e.value)

(***************************************************************************)
(* EmitterSpec: an expression is handed to one of the emitters             *)
(***************************************************************************)
\* the operands of the emitted expressions: a, b, 1 and f(a)
EmitOperands ==
    {VariableExpr("a", 0), VariableExpr("b", 0), NumberExpr("Int", 0),
     FunctionCall([value |-> "f", position |-> 0], <<VariableExpr("a", 0)>>)}

EmitOperators == {"Add", "Multiply", "NotEqual"}

\* the trees with one operator more than the operands of `trees`
EmitBinaries(trees) ==
    {BinaryExpression(lhs, [value |-> operator, position |-> 0], rhs) :
        lhs \in trees, operator \in EmitOperators, rhs \in trees}

\* the trees of up to three operators, and of two operators nested in
\* the left, the right or in both operands
EmitExpressions ==
    EmitOperands \cup EmitBinaries(EmitOperands \cup EmitBinaries(EmitOperands))

\* the operators of a tree
RECURSIVE OperatorsOf(_)
OperatorsOf(e) ==
    IF e.kind = "BinaryExpression"
    THEN OperatorsOf(e.lhs) \cup {e.operator.value} \cup OperatorsOf(e.rhs)
    ELSE {}

\* BinaryOperator of the AST that emitter_c.rs is written for (ast.rs)
AstOperators == {"Less", "Greater", "Add", "Subtract", "Multiply", "Divide"}

EmitterInit ==
    /\ ast_expression \in EmitExpressions
    /\ emitter = "none"
    /\ writer = <<>>
    /\ ParserIdle
    /\ CheckerIdle
    /\ LexerIdle
    /\ SourceIdle

\* emitter/c/mod.rs Emitter::expression on the expression
EmitExpression ==
    /\ emitter = "none"
    /\ emitter' = "emitter::c"
    /\ writer' = writer \o Emitter_expression(ast_expression)
    /\ UNCHANGED <<ast_expression, parser_vars, checker_vars, lexer_vars, source_vars>>

\* emitter_c.rs EmitterC::expression on the expression
EmitExpressionC ==
    /\ emitter = "none"
    /\ OperatorsOf(ast_expression) \subseteq AstOperators
    /\ emitter' = "emitter_c"
    /\ writer' = writer \o EmitterC_expression(ast_expression)
    /\ UNCHANGED <<ast_expression, parser_vars, checker_vars, lexer_vars, source_vars>>

EmitterNext == EmitExpression \/ EmitExpressionC

EmitterSpec == EmitterInit /\ [][EmitterNext]_vars

\* the operands and operators of a tree in the order an in-order
\* traversal meets them
RECURSIVE Traversal(_)
Traversal(e) ==
    IF e.kind = "BinaryExpression"
    THEN Traversal(e.lhs) \o <<e.operator.value>> \o Traversal(e.rhs)
    ELSE <<e>>

\* C21: the text the C emitter writes for an expression is written for no
\* other tree over the same operands and operators in the same order
\* (every BinaryExpression is written as `(` lhs op rhs `)`)
C21_TextDeterminesTree ==
    emitter = "emitter::c" =>
        \A other \in EmitExpressions :
            (Traversal(other) = Traversal(ast_expression) /\ other # ast_expression)
                => Emitter_expression(other) # writer

\* the emitter of emitter_c.rs, which writes the parentheses: no two trees
\* have one text
ParenthesizedTextDeterminesTree ==
    emitter = "emitter_c" =>
        \A other \in EmitExpressions :
            (OperatorsOf(other) \subseteq AstOperators /\ other # ast_expression)
                => EmitterC_expression(other) # writer

\* the characters c1 c2 c3 stand in the text one after the other
Contains(text, c1, c2, c3) ==
    \E i \in 1..(Len(text) - 2) : text[i] = c1 /\ text[i + 1] = c2 /\ text[i + 2] = c3

\* C22: the operator NotEqual is written as `!=`, and `=/=` is nowhere in
\* the C text
C22_NotEqualRendering ==
    emitter = "emitter::c" =>
        /\ ~Contains(writer, "=", "/", "=")
        /\ (ast_expression.kind = "BinaryExpression"
                /\ ast_expression.operator.value = "NotEqual"
                /\ ast_expression.lhs.kind = "Variable"
                /\ ast_expression.rhs.kind = "Variable")
               => writer = Emitter_variable(ast_expression.lhs) \o <<" ", "!", "=", " ">>
                               \o Emitter_variable(ast_expression.rhs)

====
